---- MODULE Spec2Model ----
(***************************************************************************)
(* Model of spectral-change-detector/spectral-change_ncar.ipynb.           *)
(*                                                                         *)
(* The notebook is a set of cells over shared Python globals.  Five        *)
(* specifications are given over one set of variables:                     *)
(*   SpecMask   the per-image functions of the "Functions" cell (clp, the  *)
(*              four masking steps, addNDVI) applied to one raster whose   *)
(*              pixels are modelled;                                       *)
(*   SpecRepeat the masking steps applied repeatedly, maskS2clouds also    *)
(*              to a raster it has divided already;                        *)
(*   SpecAgg    calls of annual_images / annual_trend / intrayear and of   *)
(*              the linear fits, on configurations drawn from small sets;  *)
(*   SpecFit    annual_images and the year-over-year fit with the values   *)
(*              of the pixels, on a synthetic series;                      *)
(*   Spec       the cells of the notebook, run in any order.               *)
(*                                                                         *)
(* Earth Engine objects are lazy expression graphs that capture the value  *)
(* of every Python global when the expression is built; the model computes *)
(* them eagerly at that point, and a server-side failure is the value      *)
(* Error, which every operator propagates.                                 *)
(***************************************************************************)
EXTENDS Integers, Sequences, FiniteSets, TLC

----------------------------------------------------------------------------
(* Bounds of the model. *)

\* pixels of a modelled raster (locations 1..NumPixels)
NumPixels == 2
\* how often maskS2clouds (the only step that rescales) is applied to a
\* raster in SpecRepeat
MaxDivides == 2

Pixels == 1 .. NumPixels

----------------------------------------------------------------------------
(* Values. *)

Undef == [kind |-> "undef"]
Error == [kind |-> "error"]
NoProps == [n \in {} |-> 0]

IsImage(x) == x.kind = "image"
IsCollection(x) == x.kind = "collection"

TIME == "system:time_start"

\* system:time_start is the time of acquisition in milliseconds since
\* 1970-01-01 UTC.  The images here are acquired at 00:00 UTC and the
\* property is held in days, of DayLength units of 1e5 ms each.
DayLength == 864

\* the day of the month on which the images here are acquired
AcquisitionDay == 15

\* the number of days from 1970-01-01 to a date of the proleptic Gregorian
\* calendar, the calendar of ee.Date and of ee.Filter.calendarRange
DaysFromCivil(year, month, day) ==
    LET y == IF month <= 2 THEN year - 1 ELSE year
        era == y \div 400
        yoe == y - era * 400
        mp == IF month > 2 THEN month - 3 ELSE month + 9
        doy == (153 * mp + 2) \div 5 + day - 1
        doe == yoe * 365 + yoe \div 4 - yoe \div 100 + doy
    IN  era * 146097 + doe - 719468

\* the element of a singleton; {F(c) : c \in {e}} computes the operand e of
\* an Earth Engine operator once, before the operator is applied to it
Only(S) == CHOOSE x \in S : TRUE

\* the date of a number of days since 1970-01-01: the era of 400 years, the
\* day doe of the era, the year yoe of the era, the day doy of the year and
\* the month mp of the year, the years beginning on the first of March
CivilFromDays(t) ==
    Only({Only({Only({Only({
        [year |-> yoe + era * 400 + (IF mp < 10 THEN 0 ELSE 1),
         month |-> IF mp < 10 THEN mp + 3 ELSE mp - 9,
         day |-> doy - (153 * mp + 2) \div 5 + 1] :
        mp \in {(5 * doy + 2) \div 153}}) :
        doy \in {doe - (365 * yoe + yoe \div 4 - yoe \div 100)}}) :
        yoe \in {(doe - doe \div 1460 + doe \div 36524
                      - doe \div 146096) \div 365}}) :
        era \in {(t + 719468) \div 146097},
        doe \in {(t + 719468) % 146097}})

TimeStart(year, month) == DaysFromCivil(year, month, AcquisitionDay)

\* the year and the month ee.Filter.calendarRange reads from
\* system:time_start
YearOf(t) == CivilFromDays(t).year
MonthOf(t) == CivilFromDays(t).month

\* two decimal digits
TwoDigits(n) == IF n < 10 THEN "0" \o ToString(n) ELSE ToString(n)

\* line 701: ee.Date(system:time_start).format('YYYY-MM-dd')
FormatDate(t) ==
    Only({ToString(date.year) \o "-" \o TwoDigits(date.month)
              \o "-" \o TwoDigits(date.day) :
          date \in {CivilFromDays(t)}})

HasProp(x, name) == name \in DOMAIN x.props

SeqToSet(s) == {s[i] : i \in DOMAIN s}

\* the bands of a Sentinel-2 surface reflectance image the notebook reads
RawBands == <<"B2", "B3", "B4", "B8", "QA60", "MSK_SNWPRB">>

\* line 85: .divide(10000)
ScaleFactor == 10000

RECURSIVE DivPow(_, _)
\* floor(a / ScaleFactor^k), a >= 0
DivPow(a, k) == IF k = 0 THEN a ELSE DivPow(a \div ScaleFactor, k - 1)

RECURSIVE CeilDivPow(_, _)
\* ceiling(a / ScaleFactor^k), a >= 0
CeilDivPow(a, k) ==
    IF k = 0 THEN a ELSE CeilDivPow((a + ScaleFactor - 1) \div ScaleFactor, k - 1)

----------------------------------------------------------------------------
(* Regions.  A region is named by the cell that produced it; its geometry  *)
(* is the set of pixel locations it covers.                                *)

Regions == {"basin", "point", "geojson", "drawn", "upload"}

\* the value of aoi before any cell has assigned it
NoRegion == "undefined"

Geometry(region) ==
    CASE region = "basin"   -> Pixels
      [] region = "geojson" -> Pixels
      [] region = "point"   -> {1}
      [] region = "drawn"   -> Pixels \ {1}
      [] region = "upload"  -> {NumPixels}
      [] OTHER              -> {}

----------------------------------------------------------------------------
(* Earth Engine image operators used by the functions cell.                *)
(* An image is [kind, bands, props, k, px]: the band names in order, the   *)
(* properties, the number of times the band values were divided by         *)
(* ScaleFactor (a band value is px[p].v[band] / ScaleFactor^k), and per    *)
(* pixel the mask m (TRUE: valid) and the stored values v.                 *)
(* A single-band raster computed from an image (a mask, a grayscale) is a  *)
(* function from the image's pixels to [m, v].                             *)

\* updateMask as a bug would have it: the mask raster replaces the mask of
\* the image instead of being combined with it
updateMask_replacing(image, mask) ==
    [image EXCEPT !.px = [p \in DOMAIN image.px |->
                 [image.px[p] EXCEPT !.m = mask[p].m /\ mask[p].v # 0]]]

\* ee.Image.updateMask: a pixel stays valid where it was valid and the mask
\* raster is valid and non-zero; it retains the metadata of the input
updateMask(image, mask) ==
    [image EXCEPT !.px = [p \in DOMAIN image.px |->
                 [image.px[p] EXCEPT !.m = @ /\ mask[p].m /\ mask[p].v # 0]]]

\* copyProperties as a bug would have it: nothing is copied
copyProperties_nothing(dest, source, names) == dest

\* ee.Image.copyProperties(source, names): the named properties of source
\* that exist are set on the destination
copyProperties(dest, source, names) ==
    [dest EXCEPT !.props =
        [n \in (DOMAIN dest.props) \cup (names \cap DOMAIN source.props) |->
            IF n \in names \cap DOMAIN source.props
            THEN source.props[n] ELSE dest.props[n]]]

\* ee.Image.divide(10000): every band is rescaled, the band NDVI too if the
\* image has it (nd.k counts its divisions); the result of image arithmetic
\* carries none of the input's properties
divide(image) ==
    [image EXCEPT
        !.k = @ + 1,
        !.props = NoProps,
        !.px = [p \in DOMAIN image.px |->
                   IF "NDVI" \in SeqToSet(image.bands) /\ image.px[p].nd.m
                   THEN [image.px[p] EXCEPT !.nd.k = @ + 1]
                   ELSE image.px[p]]]

\* ee.Image.clip: data outside the geometry is masked, metadata is retained
clip(image, region) ==
    [image EXCEPT !.px = [p \in DOMAIN image.px |->
                 [image.px[p] EXCEPT !.m = @ /\ p \in Geometry(region)]]]

RECURSIVE bitwiseAnd(_, _)
\* ee.Image.bitwiseAnd on integer values
bitwiseAnd(x, y) ==
    IF x = 0 \/ y = 0 THEN 0
    ELSE (x % 2) * (y % 2) + 2 * bitwiseAnd(x \div 2, y \div 2)

\* ee.Image.addBands of the single band "NDVI" whose pixels are nd
addBands(image, nd) ==
    [image EXCEPT !.bands = Append(@, "NDVI"),
                  !.px = [p \in DOMAIN image.px |->
                             [image.px[p] EXCEPT !.nd = nd[p]]]]

\* ee.Image.normalizedDifference([a, b]): (a - b) / (a + b), kept as the exact
\* fraction n / d (divided k times by 10000 since); masked where an input is
\* masked or the sum is zero
normalizedDifference(image, a, b) ==
    [p \in DOMAIN image.px |->
        LET va == image.px[p].v[a]
            vb == image.px[p].v[b]
        IN  IF image.px[p].m /\ va + vb # 0
            THEN [m |-> TRUE, n |-> va - vb, d |-> va + vb, k |-> 0]
            ELSE [m |-> FALSE, n |-> 0, d |-> 1, k |-> 0]]

----------------------------------------------------------------------------
(* The Python globals of the notebook, and the bookkeeping of the          *)
(* specifications.                                                         *)

VARIABLES
    \* globals of the notebook
    aoi, waterMask, dataset,
    index, analysis, start_year, end_year, start_month, end_month,
    index_collection, years,
    intrayear_collection, yearwise_ndvi, yearwise_trend, yearCompCol, trend,
    trend_image, training, kmeansresult, df,
    lat, long, Map, ndvi_collection, img,
    \* Spec: the cell that ran last and how it ended; the region-taking
    \* queries it issued
    cell, queries,
    \* SpecMask: the raster as read from the archive, the raster now, the
    \* raster before the last step, the last two steps, and how many steps
    \* of the dataset pipeline have been applied in order (-1: another order)
    raw, raster, before, steps, pipe,
    \* SpecAgg: the last call and what it returned
    call, result

config == <<index, analysis, start_year, end_year, start_month, end_month,
            index_collection, years>>
derived == <<intrayear_collection, yearwise_ndvi, yearwise_trend,
             yearCompCol, trend>>
kmeansvars == <<trend_image, training, kmeansresult, df>>
maskvars == <<raw, raster, before, steps, pipe>>
aggvars == <<call, result>>
\* the centre of the region and the map widget, the collection of the mean
\* NDVI cell, and img of the NDVI table and of the k-means cells
othervars == <<lat, long, Map, ndvi_collection, img>>
vars == <<aoi, waterMask, dataset, config, derived, kmeansvars, othervars,
          cell, queries, maskvars, aggvars>>

----------------------------------------------------------------------------
(* The functions cell, lines 64-134.                                       *)

cloudBitMask == 2 ^ 10
cirrusBitMask == 2 ^ 11

\* qa = image.select('QA60') while QA60 is the integer flag band of the
\* archive
QA(image) == [p \in DOMAIN image.px |-> image.px[p].v["QA60"]]

\* lines 74-85 as a bug would have them: the flags are compared the wrong
\* way round, so flagged pixels are the ones kept
maskS2cloudsReading_inverted(image, qa) ==
    LET mask == [p \in DOMAIN image.px |->
                    [m |-> image.px[p].m,
                     v |-> IF bitwiseAnd(qa[p], cloudBitMask) = 0
                              /\ bitwiseAnd(qa[p], cirrusBitMask) = 0
                           THEN 0 ELSE 1]]
    IN  copyProperties(divide(updateMask(image, mask)), image, {TIME})

\* lines 74-85, qa[p] being the integer that bitwiseAnd reads in QA60 at p:
\* mask = qa.bitwiseAnd(cloudBitMask).eq(0)
\*            .And(qa.bitwiseAnd(cirrusBitMask).eq(0))
\* image.updateMask(mask).divide(10000).copyProperties(image, [...])
maskS2cloudsReading(image, qa) ==
    LET mask == [p \in DOMAIN image.px |->
                    [m |-> image.px[p].m,
                     v |-> IF bitwiseAnd(qa[p], cloudBitMask) = 0
                              /\ bitwiseAnd(qa[p], cirrusBitMask) = 0
                           THEN 1 ELSE 0]]
    IN  copyProperties(divide(updateMask(image, mask)), image, {TIME})

\* maskS2clouds on an image of the archive, as the dataset cell maps it.  On
\* an image that maskS2clouds has divided already QA60 is not an integer
\* band, and the outcome is one of maskS2cloudsOutcomes.
maskS2clouds(image) ==
    IF image.k = 0 THEN maskS2cloudsReading(image, QA(image)) ELSE Error

\* what bitwiseAnd may read in QA60 after the band has been divided by
\* 10000 k times, if the platform converts the number to an integer: the
\* number rounded down, or rounded up
ConvertedQA(image) ==
    {[p \in DOMAIN image.px |-> DivPow(image.px[p].v["QA60"], image.k)],
     [p \in DOMAIN image.px |-> CeilDivPow(image.px[p].v["QA60"], image.k)]}

\* the outcomes of maskS2clouds(image).  The notebook does not say what
\* bitwiseAnd does with a band that is not an integer band: the platform
\* rejects the operand, and the image is an error when it is evaluated, or
\* it converts the number.
maskS2cloudsOutcomes(image) ==
    IF image.k = 0 THEN {maskS2clouds(image)}
    ELSE {Error} \cup {maskS2cloudsReading(image, qa) :
                          qa \in ConvertedQA(image)}

\* waterMask.select('water_mask').lt(1)
maskWater(image) ==
    LET mask == [p \in DOMAIN image.px |->
                    [m |-> waterMask.px[p].m,
                     v |-> IF waterMask.px[p].v["water_mask"] < 1
                           THEN 1 ELSE 0]]
    IN  updateMask(image, mask)

\* image.select('MSK_SNWPRB').lt(0.009): v / ScaleFactor^k < 9 / 1000
maskS2snow(image) ==
    LET mask == [p \in DOMAIN image.px |->
                    [m |-> image.px[p].m,
                     v |-> IF DivPow(1000 * image.px[p].v["MSK_SNWPRB"],
                                     image.k) < 9
                           THEN 1 ELSE 0]]
    IN  copyProperties(updateMask(image, mask), image, {TIME})

\* (.3 * 1e4 * R) + (.59 * 1e4 * G) + (.11 * 1e4 * B), times ScaleFactor^k
grayscale(image, p) ==
    3000 * image.px[p].v["B4"] + 5900 * image.px[p].v["B3"]
        + 1100 * image.px[p].v["B2"]

\* grayscale.lte(2000)
maskWhite(image) ==
    LET white_mask == [p \in DOMAIN image.px |->
                          [m |-> image.px[p].m,
                           v |-> IF CeilDivPow(grayscale(image, p), image.k)
                                        <= 2000
                                 THEN 1 ELSE 0]]
    IN  copyProperties(updateMask(image, white_mask), image, {TIME})

clp(image) == clip(image, aoi)

addNDVI(image) ==
    LET ndvi == normalizedDifference(image, "B8", "B4")
    IN  copyProperties(addBands(image, ndvi), image, {TIME})

\* line 247 (and the lambdas of lines 158, 208, 236):
\* image.addBands(image.metadata('system:time_start').divide(3.154e10))
createTimeBand(image) == [image EXCEPT !.bands = Append(@, TIME)]

\* lines 249-267: the mean of NDVI over the valid pixels of aoi, kept as the
\* values it is the mean of, is set as the property 'ndvi_mean'; there is
\* no value to set where aoi holds no valid pixel
meanNDVI(image) ==
    LET inside == {p \in Geometry(aoi) :
                      image.px[p].m /\ image.px[p].nd.m}
    IN  IF "NDVI" \notin SeqToSet(image.bands) THEN Error
        ELSE IF inside = {} THEN image
        ELSE [image EXCEPT !.props =
                 ("ndvi_mean" :> [p \in inside |->
                                     [n |-> image.px[p].nd.n,
                                      d |-> image.px[p].nd.d,
                                      k |-> image.px[p].nd.k]])
                     @@ image.props]

\* a call of the function named f, as ee.ImageCollection.map makes it
InvokeOnImage(f, image) ==
    CASE f = "clp"            -> clp(image)
      [] f = "maskS2clouds"   -> maskS2clouds(image)
      [] f = "maskS2snow"     -> maskS2snow(image)
      [] f = "maskWhite"      -> maskWhite(image)
      [] f = "maskWater"      -> maskWater(image)
      [] f = "addNDVI"        -> addNDVI(image)
      [] f = "createTimeBand" -> createTimeBand(image)
      [] f = "meanNDVI"       -> meanNDVI(image)

----------------------------------------------------------------------------
(* The values of the bands.  A value is a fraction n / d in lowest terms   *)
(* with d > 0; d = 0 where the pixel is masked; d < 0 stands for a valid   *)
(* pixel whose number is not carried (a standard deviation, the offset of  *)
(* a fit: the notebook reads their masks only; and a number whose exact    *)
(* fraction, or a sum on the way to it, has a term beyond MaxTerm).        *)

Rational(n, d) == [n |-> n, d |-> d]
Masked == Rational(0, 0)
Unvalued == Rational(0, -1)

Abs(x) == IF x < 0 THEN 0 - x ELSE x

RECURSIVE GCD(_, _)
GCD(a, b) == IF b = 0 THEN a ELSE GCD(b, a % b)

\* the largest term of the fractions that are carried
MaxTerm == 2 ^ 30

\* the product of a and b is within MaxTerm
Within(a, b) == b = 0 \/ Abs(a) <= MaxTerm \div Abs(b)

\* the least common multiple of a and b, 0 if it is beyond MaxTerm
LCM(a, b) ==
    IF a = 0 \/ b = 0 \/ ~Within(a \div GCD(a, b), b) THEN 0
    ELSE (a \div GCD(a, b)) * b

\* n / d in lowest terms, d # 0
Reduced(n, d) ==
    LET g == GCD(Abs(n), Abs(d))
    IN  IF d < 0 THEN Rational((0 - n) \div g, (0 - d) \div g)
        ELSE Rational(n \div g, d \div g)

\* the product of two fractions in lowest terms
Times(v, w) ==
    IF v.d = 0 \/ w.d = 0 THEN Masked
    ELSE IF v.d < 0 \/ w.d < 0 THEN Unvalued
    ELSE LET a == Reduced(v.n, w.d)
             b == Reduced(w.n, v.d)
         IN  IF Within(a.n, b.n) /\ Within(a.d, b.d)
             THEN Rational(a.n * b.n, a.d * b.d)
             ELSE Unvalued

RECURSIVE Sum(_)
Sum(s) == IF s = <<>> THEN 0 ELSE Head(s) + Sum(Tail(s))

RECURSIVE CommonDenominator(_)
\* the common denominator of valued fractions, 0 if it is beyond MaxTerm
CommonDenominator(series) ==
    IF series = <<>> THEN 1
    ELSE LCM(Head(series).d, CommonDenominator(Tail(series)))

\* the denominator the numbers of the values are carried over: their common
\* denominator, 0 if a value is not carried or if a numerator over it, their
\* sum, or the denominator of their mean or median is beyond MaxTerm
Denominator(series) ==
    Only({IF \E i \in DOMAIN s : s[i].d < 0 THEN 0
          ELSE Only({IF /\ cd # 0
                        /\ Within(cd, Len(s) + 1)
                        /\ \A i \in DOMAIN s :
                              Within(s[i].n,
                                     (Len(s) + 1) * (cd \div s[i].d))
                     THEN cd ELSE 0 :
                     cd \in {CommonDenominator(s)}}) :
          s \in {series}})

\* the numerators of the values over the denominator cd
Numerators(series, cd) ==
    [i \in DOMAIN series |-> series[i].n * (cd \div series[i].d)]

\* line 247: the time band is system:time_start divided by 3.154e10, which
\* is YearLength units of 1e5 ms
YearLength == 315400

\* the value of a band of an image at a pixel: a band computed by a reducer
\* or a clusterer is held in vals; the time band is the constant image of
\* the property divided by 3.154e10, valid everywhere; NDVI is
\* (B8 - B4) / (B8 + B4), divided nd.k times since; another band is its
\* stored number over ScaleFactor^k
BandValue(image, band, p) ==
    IF "vals" \in DOMAIN image /\ band \in DOMAIN image.vals
    THEN image.vals[band][p]
    ELSE IF band = TIME
    THEN Reduced(image.props[TIME] * DayLength, YearLength)
    ELSE IF ~image.px[p].m THEN Masked
    ELSE IF band = "NDVI"
    THEN IF image.px[p].nd.m
         THEN Reduced(image.px[p].nd.n,
                      image.px[p].nd.d * (ScaleFactor ^ image.px[p].nd.k))
         ELSE Masked
    ELSE Reduced(image.px[p].v[band], ScaleFactor ^ image.k)

\* the values of an image that computed none
NoValues == [b \in {} |-> Masked]

\* the values that the image computed for the bands named
ComputedValues(image, names) ==
    [b \in SeqToSet(names) \cap DOMAIN image.vals |-> image.vals[b]]

\* the values a reducer sees at a pixel: those of the images that are valid
\* there
BandSeries(collection, band, p) ==
    SelectSeq([i \in DOMAIN collection.images |->
                  BandValue(collection.images[i], band, p)],
              LAMBDA v : v.d # 0)

\* the place of a k-th smallest of the numbers
Kth(N, k) ==
    CHOOSE i \in DOMAIN N :
        /\ Cardinality({j \in DOMAIN N : N[j] < N[i]}) < k
        /\ Cardinality({j \in DOMAIN N : N[j] <= N[i]}) >= k

\* the output of a reducer on values carried over the denominator d
ReducedOver(series, d, output) ==
    Only({IF cd = 0 THEN Unvalued
          ELSE Only({
               CASE output = "max" ->
                      series[CHOOSE i \in DOMAIN N :
                                 \A j \in DOMAIN N : N[j] <= N[i]]
                 [] output = "min" ->
                      series[CHOOSE i \in DOMAIN N :
                                 \A j \in DOMAIN N : N[i] <= N[j]]
                 [] output = "mean" -> Reduced(Sum(N), cd * Len(N))
                 [] output = "median" ->
                      Reduced(N[Kth(N, (Len(N) + 1) \div 2)]
                                  + N[Kth(N, (Len(N) + 2) \div 2)],
                              2 * cd) :
               N \in {Numerators(series, cd)}}) :
          cd \in {d}})

\* the outputs of the combined reducers, lines 164-179, and of
\* ee.Reducer.mean, on the values of one band at one pixel: masked where no
\* image is valid; the median of an even number of values is the mean of the
\* middle two
ReducedValue(series, output) ==
    Only({IF s = <<>> THEN Masked
          ELSE IF output = "stdDev" THEN Unvalued
          ELSE ReducedOver(s, Denominator(s), output) :
          s \in {series}})

\* the points a fit is made over: those where both values are valid
FitPoints(xs, ys) ==
    Only({SelectSeq([i \in DOMAIN x |-> <<x[i], y[i]>>],
                    LAMBDA pt : pt[1].d # 0 /\ pt[2].d # 0) :
          x \in {xs}, y \in {ys}})

\* the xs, or the ys, of the points
Coordinate(pts, k) == [i \in DOMAIN pts |-> pts[i][k]]

\* the numbers counted from the first one
Centred(N) == [i \in DOMAIN N |-> N[i] - N[1]]

RECURSIVE SeriesGCD(_)
\* the greatest common divisor of the numbers, 0 if they are all 0
SeriesGCD(X) ==
    IF X = <<>> THEN 0 ELSE GCD(Abs(Head(X)), SeriesGCD(Tail(X)))

\* the unit the numbers are whole multiples of
Unit(X) == Only({IF g = 0 THEN 1 ELSE g : g \in {SeriesGCD(X)}})

\* the numbers in the unit u
InUnits(X, u) == [i \in DOMAIN X |-> X[i] \div u]

\* the sums of the slope over the n numbers of X and of Y are within
\* MaxTerm
SumsWithin(X, Y) ==
    LET m == CHOOSE a \in {Abs(X[i]) : i \in DOMAIN X}
                         \cup {Abs(Y[i]) : i \in DOMAIN Y} :
                 \A i \in DOMAIN X : Abs(X[i]) <= a /\ Abs(Y[i]) <= a
    IN  Within(m, 2 * Len(X) * Len(X) * m)

\* the slope of the least-squares line through the points (X[i], Y[i]),
\* whose X differ
Slope(X, Y) ==
    Reduced(Len(X) * Sum([i \in DOMAIN X |-> X[i] * Y[i]])
                - Sum(X) * Sum(Y),
            Len(X) * Sum([i \in DOMAIN X |-> X[i] * X[i]])
                - Sum(X) * Sum(X))

\* the slope in the units of the values: the xs are X times ux over dx and
\* the ys are Y times uy over dy
Rescaled(slope, ux, dx, uy, dy) ==
    Times(Times(slope, Reduced(uy, ux)), Reduced(dx, dy))

\* the slope of the least-squares line for the numerators X over dx and Y
\* over dy, in the largest units they are whole multiples of, which leaves
\* the slope as it is and the sums small; not carried where a sum is beyond
\* MaxTerm
FittedSlope(X, Y, dx, dy) ==
    Only({Only({Only({IF ~SumsWithin(U, V) THEN Unvalued
                      ELSE Rescaled(Slope(U, V), ux, dx, uy, dy) :
                      U \in {InUnits(A, ux)}, V \in {InUnits(B, uy)}}) :
                ux \in {Unit(A)}, uy \in {Unit(B)}}) :
          A \in {X}, B \in {Y}})

\* the slope of the least-squares line through the xs PX and the ys PY,
\* carried over the denominators x and y and counted from the first ones
FittedOver(PX, PY, x, y) ==
    Only({IF dx = 0 \/ dy = 0 THEN Unvalued
          ELSE FittedSlope(Centred(Numerators(PX, dx)),
                           Centred(Numerators(PY, dy)), dx, dy) :
          dx \in {x}, dy \in {y}})

\* the outcomes of the output 'scale' of ee.Reducer.linearFit on the points
\* (xs[i], ys[i]): the slope of the least-squares line through the points
\* where both values are valid, masked where there are fewer than two points
\* or where the xs do not differ; the xs and the ys are counted from the
\* first ones.  The pixel is valid but its number is not carried where that
\* of an input is not, or where a term is beyond MaxTerm.  Where an x is a
\* number that is not carried and no two of the xs that are carried differ,
\* the xs may be the same number or not: the pixel is masked, or valid.
linearFitScale(xs, ys) ==
    Only({IF Len(pts) < 2 THEN {Masked}
          ELSE Only({
               IF \E i, j \in DOMAIN PX :
                      PX[i].d > 0 /\ PX[j].d > 0 /\ PX[i] # PX[j]
               THEN {FittedOver(PX, PY, Denominator(PX), Denominator(PY))}
               ELSE IF \E i \in DOMAIN PX : PX[i].d < 0
               THEN {Masked, Unvalued}
               ELSE {Masked} :
               PX \in {Coordinate(pts, 1)}, PY \in {Coordinate(pts, 2)}}) :
          pts \in {FitPoints(xs, ys)}})

\* the output 'offset' of ee.Reducer.linearFit: valid where 'scale' is
linearFitOffset(scale) == IF scale.d = 0 THEN Masked ELSE Unvalued

----------------------------------------------------------------------------
(* Earth Engine collection operators used by the aggregation functions.    *)
(* A collection is [kind, images, props, region]: its images in order, its *)
(* own properties, and the geometry its filterBounds and clip captured.    *)
(* A raster computed by a reducer is [kind, bands, props, inputs, vals]:    *)
(* inputs are the input bands the reducer was handed, in order, and vals   *)
(* the values of its bands at every pixel.                                 *)

\* a Python exception raised while the expression is built
Raise(what) == [kind |-> "raise", what |-> what]
IsRaise(x) == x.kind = "raise"

\* ee.Filter.calendarRange(start, end, field): if end < start the range
\* wraps around
calendarRange(start, end, field) ==
    [type |-> "calendarRange", start |-> start, end |-> end, field |-> field]

\* ee.Filter.lt(name, value)
lt(name, value) == [type |-> "lt", name |-> name, value |-> value]

Matches(f, image) ==
    IF f.type = "lt" THEN image.props[f.name] < f.value
    ELSE
    LET t == image.props[TIME]
        x == IF f.field = "year" THEN YearOf(t) ELSE MonthOf(t)
    IN  IF f.start <= f.end
        THEN f.start <= x /\ x <= f.end
        ELSE x >= f.start \/ x <= f.end

\* ee.ImageCollection.filter
filter(collection, f) ==
    Only({[c EXCEPT !.images =
              SelectSeq(c.images, LAMBDA image : Matches(f, image))] :
          c \in {collection}})

\* ee.ImageCollection.size
size(collection) == Len(collection.images)

\* ee.Image.select(names): the named bands in the order given, with their
\* values; a name that matches no band is an error
select(image, names) ==
    Only({IF ~IsImage(x) THEN Error
          ELSE IF SeqToSet(names) \subseteq SeqToSet(x.bands)
               THEN IF "vals" \in DOMAIN x
                    THEN [x EXCEPT !.bands = names,
                                   !.vals = ComputedValues(x, names)]
                    ELSE [x EXCEPT !.bands = names]
               ELSE Error :
          x \in {image}})

\* ee.ImageCollection.select: select mapped over the images; the collection
\* cannot be computed if one image fails
selectAll(collection, names) ==
    Only({IF ~IsCollection(c) THEN Error
          ELSE IF \E i \in DOMAIN c.images : select(c.images[i], names) = Error
               THEN Error
               ELSE [c EXCEPT !.images =
                        [i \in DOMAIN c.images |-> select(c.images[i], names)]] :
          c \in {collection}})

\* the outputs of the reducers the notebook builds
ReducerOutputs(reducer) ==
    CASE reducer = "mean+stdDev" -> <<"mean", "stdDev">>
      [] reducer = "mean+minMax" -> <<"mean", "min", "max">>
      [] reducer = "mean+median" -> <<"mean", "median">>
      [] reducer = "mean"        -> <<"mean">>
      [] OTHER                   -> <<>>

\* band names of a per-band reducer: <band>_<output>, band by band
OutputBands(bands, outs) ==
    [j \in 1 .. (Len(bands) * Len(outs)) |->
        <<bands[((j - 1) \div Len(outs)) + 1], outs[((j - 1) % Len(outs)) + 1]>>]

Joined(pair) == pair[1] \o "_" \o pair[2]

\* the values of the bands of a per-band reducer
ReducedValues(collection, bands, outs) ==
    Only({[name \in {Joined(pairs[j]) : j \in DOMAIN pairs} |->
              Only({[p \in Pixels |->
               ReducedValue(BandSeries(collection, pair[1], p),
                            pair[2])] :
           pair \in {pairs[j] : j \in {k \in DOMAIN pairs :
                                          Joined(pairs[k]) = name}}})] :
          pairs \in {OutputBands(bands, outs)}})

\* the values of a band of the images at a pixel, masked ones too
BandValues(collection, band, p) ==
    [i \in DOMAIN collection.images |->
        BandValue(collection.images[i], band, p)]

\* the outcomes of 'scale' at every pixel
FitScales(collection, x, y) ==
    Only({{scale \in [Pixels -> UNION {outcomes[p] : p \in Pixels}] :
              \A p \in Pixels : scale[p] \in outcomes[p]} :
          outcomes \in {[p \in Pixels |->
                            linearFitScale(BandValues(collection, x, p),
                                           BandValues(collection, y, p))]}})

\* the values of the bands of ee.Reducer.linearFit, x then y: one for each
\* outcome of 'scale'
FitValues(collection, x, y) ==
    {("scale" :> scale)
         @@ ("offset" :> [p \in Pixels |-> linearFitOffset(scale[p])]) :
     scale \in FitScales(collection, x, y)}

\* the outcome of an operation that has one
TheOutcome(outcomes) ==
    Only({CHOOSE x \in S : S = {x} : S \in {outcomes}})

\* the outcomes of ee.ImageCollection.reduce(reducer).  An empty collection
\* reduces to an image without bands; the images of a collection must agree
\* on their bands; ee.Reducer.linearFit takes exactly two inputs, x then y,
\* and returns 'scale' and 'offset'.  At each pixel the reducer sees the
\* images that are valid there.  The result carries no properties.  The
\* other reducers have one outcome; a fit has one for each outcome of its
\* 'scale'.
reduce(collection, reducer) ==
    Only({
        IF ~IsCollection(c) THEN {Error}
        ELSE IF \E i \in DOMAIN c.images : ~IsImage(c.images[i])
        THEN {Error}
        ELSE IF c.images = <<>>
        THEN {[kind |-> "image", bands |-> <<>>, props |-> NoProps,
               inputs |-> <<>>, vals |-> NoValues]}
        ELSE LET bands == c.images[1].bands IN
             IF \E i \in DOMAIN c.images : c.images[i].bands # bands
             THEN {Error}
             ELSE IF reducer = "linearFit"
             THEN IF Len(bands) = 2
                  THEN {[kind |-> "image", bands |-> <<"scale", "offset">>,
                         props |-> NoProps, inputs |-> bands,
                         vals |-> values] :
                        values \in FitValues(c, bands[1], bands[2])}
                  ELSE {Error}
             ELSE {[kind |-> "image",
                    bands |-> [j \in 1 .. (Len(bands)
                                            * Len(ReducerOutputs(reducer)))
                                |-> Joined(OutputBands(bands,
                                              ReducerOutputs(reducer))[j])],
                    props |-> NoProps, inputs |-> bands,
                    vals |-> ReducedValues(c, bands,
                                           ReducerOutputs(reducer))]} :
        c \in {collection}})

\* ee.Element.set
set(element, name, value) ==
    Only({IF e.kind \in {"image", "collection"}
          THEN [e EXCEPT !.props =
                   [n \in (DOMAIN e.props) \cup {name} |->
                       IF n = name THEN value ELSE e.props[n]]]
          ELSE e :
          e \in {element}})

\* ee.ImageCollection.map(f): f applied to every image of the computed
\* collection
mapAll(collection, f) ==
    Only({[c EXCEPT !.images =
              [i \in DOMAIN c.images |-> InvokeOnImage(f, c.images[i])]] :
          c \in {collection}})

----------------------------------------------------------------------------
(* The aggregation functions, lines 136-243.                               *)

Analyses == {"mean", "median", "min", "max"}

\* annual_images as a bug would have it: an else branch that falls back to
\* the mean
annual_images_defaultReducer(y) ==
    IF ~IsCollection(index_collection) THEN Raise("NameError")
    ELSE
    LET range_year == calendarRange(y, y, "year")
        range_month == calendarRange(start_month, end_month, "month")
        filtered_dataset ==
            mapAll(filter(filter(index_collection, range_year), range_month),
                   "createTimeBand")
        num_images == size(filtered_dataset)
        reducer == CASE analysis = "min" \/ analysis = "max" -> "mean+minMax"
                     [] analysis = "median" -> "mean+median"
                     [] OTHER -> "mean+stdDev"
    IN  set(set(TheOutcome(reduce(filtered_dataset, reducer)), "year", y),
            "num", num_images)

\* annual_images as a bug would have it: the images are counted before the
\* month filter
annual_images_countsYear(y) ==
    IF ~IsCollection(index_collection) THEN Raise("NameError")
    ELSE
    LET range_year == calendarRange(y, y, "year")
        range_month == calendarRange(start_month, end_month, "month")
        filtered_dataset ==
            mapAll(filter(filter(index_collection, range_year), range_month),
                   "createTimeBand")
        num_images == size(filter(index_collection, range_year))
        reducer == CASE analysis = "mean" -> "mean+stdDev"
                     [] analysis = "min" \/ analysis = "max" -> "mean+minMax"
                     [] analysis = "median" -> "mean+median"
                     [] OTHER -> "unbound"
    IN  IF reducer = "unbound" THEN Raise("UnboundLocalError")
        ELSE set(set(TheOutcome(reduce(filtered_dataset, reducer)),
                     "year", y),
                 "num", num_images)

\* annual_images(y), lines 136-183, called while the global end_month is
\* last_month
annual_images_until(y, last_month) ==
    IF ~IsCollection(index_collection) THEN Raise("NameError")
    ELSE
    LET range_year == calendarRange(y, y, "year")
        range_month == calendarRange(start_month, last_month, "month")
        filtered_dataset ==
            mapAll(filter(filter(index_collection, range_year), range_month),
                   "createTimeBand")
        num_images == size(filtered_dataset)
        \* the local name reducer is bound by one of three branches only
        reducer == CASE analysis = "mean" -> "mean+stdDev"
                     [] analysis = "min" \/ analysis = "max" -> "mean+minMax"
                     [] analysis = "median" -> "mean+median"
                     [] OTHER -> "unbound"
    IN  IF reducer = "unbound" THEN Raise("UnboundLocalError")
        ELSE set(set(TheOutcome(reduce(filtered_dataset, reducer)),
                     "year", y),
                 "num", num_images)

annual_images(y) == annual_images_until(y, end_month)

intrayear(collection) ==
    IF ~IsCollection(collection) THEN Raise("NameError")
    ELSE
    LET range_year == calendarRange(start_year, end_year, "year")
        range_month == calendarRange(start_month, end_month, "month")
        filtered_dataset ==
            mapAll(filter(filter(collection, range_year), range_month),
                   "createTimeBand")
        num_images == size(filtered_dataset)
    IN  set(set(filtered_dataset, "year", start_year), "num", num_images)

\* annual_trend as a bug would have it: the month window is the one written
\* in the configuration cell, not the globals of the moment
annual_trend_configuredWindow(y) ==
    IF ~IsCollection(index_collection) THEN Raise("NameError")
    ELSE
    LET range_year == calendarRange(y, y, "year")
        range_month == calendarRange(6, 8, "month")
        filtered_dataset ==
            mapAll(filter(filter(index_collection, range_year), range_month),
                   "createTimeBand")
        num_images == size(filtered_dataset)
        stats == TheOutcome(reduce(filtered_dataset, "linearFit"))
    IN  set(set(stats, "year", y), "num", num_images)

\* annual_trend as a bug would have it: the fit is returned without its
\* count
annual_trend_untagged(y) ==
    IF ~IsCollection(index_collection) THEN Raise("NameError")
    ELSE
    LET range_year == calendarRange(y, y, "year")
        range_month == calendarRange(start_month, end_month, "month")
        filtered_dataset ==
            mapAll(filter(filter(index_collection, range_year), range_month),
                   "createTimeBand")
        stats == TheOutcome(reduce(filtered_dataset, "linearFit"))
    IN  set(stats, "year", y)

\* annual_trend(y), lines 215-243: the fit has x = the index, the first band,
\* and y = the time band; the index of an image of the dataset is a number
\* that is carried, so the fit has one outcome
annual_trend(y) ==
    IF ~IsCollection(index_collection) THEN Raise("NameError")
    ELSE
    LET range_year == calendarRange(y, y, "year")
        range_month == calendarRange(start_month, end_month, "month")
        filtered_dataset ==
            mapAll(filter(filter(index_collection, range_year), range_month),
                   "createTimeBand")
        num_images == size(filtered_dataset)
        stats == TheOutcome(reduce(filtered_dataset, "linearFit"))
    IN  set(set(stats, "year", y), "num", num_images)

----------------------------------------------------------------------------
(* SpecMask: the functions of lines 64-134 applied to one raster.          *)

NoNDVI == [m |-> FALSE, n |-> 0, d |-> 1, k |-> 0]

Pixel(valid, qa60, snow, b2, b3, b4, b8) ==
    [m |-> valid,
     v |-> [B2 |-> b2, B3 |-> b3, B4 |-> b4, B8 |-> b8,
            QA60 |-> qa60, MSK_SNWPRB |-> snow],
     nd |-> NoNDVI]

\* raw pixels: digital numbers of the reflectance bands, the QA60 bit field
\* and the snow probability in percent
PixelTypes ==
    << Pixel(TRUE, 0, 0, 300, 600, 400, 3000),       \* clear vegetation
       Pixel(TRUE, 1024, 0, 3000, 3000, 3000, 3000), \* opaque cloud
       Pixel(TRUE, 2048, 0, 500, 500, 500, 2000),    \* cirrus
       Pixel(TRUE, 0, 100, 1500, 1500, 1500, 1500),  \* snow, 100 percent
       Pixel(TRUE, 0, 90, 900, 900, 900, 2500),      \* snow, 90 percent
       Pixel(TRUE, 0, 89, 900, 900, 900, 2500),      \* snow, 89 percent
       Pixel(TRUE, 0, 5, 400, 500, 300, 2500),       \* snow, 5 percent
       Pixel(TRUE, 0, 0, 2500, 2500, 2500, 2600),    \* bright
       Pixel(TRUE, 0, 0, 2000, 2000, 2000, 2100),    \* grayscale 2000
       Pixel(FALSE, 0, 0, 0, 0, 0, 0),               \* no data
       Pixel(TRUE, 1, 0, 100, 100, 0, 0),            \* B8 + B4 = 0
       Pixel(TRUE, 3072, 100, 9000, 9000, 9000, 9000) >>

RawImage(s) ==
    [kind |-> "image",
     bands |-> RawBands,
     props |-> (TIME :> TimeStart(2019 + (s % 5), 6 + (s % 4)))
                  @@ ("CLOUDY_PIXEL_PERCENTAGE" :> (s % 5)),
     k |-> 0,
     px |-> [p \in Pixels |->
                PixelTypes[((s + p - 2) % Len(PixelTypes)) + 1]]]

RawImages == {RawImage(s) : s \in 1 .. Len(PixelTypes)}

\* MODIS/006/MOD44W water_mask: 1 water, 0 land; w shifts which location
\* is water, land or without data
WaterMaskImage(w) ==
    [kind |-> "image",
     bands |-> <<"water_mask">>,
     props |-> NoProps,
     k |-> 0,
     px |-> [p \in Pixels |->
                [m |-> (p + w) % 3 # 1,
                 v |-> [water_mask |-> IF (p + w) % 3 = 0 THEN 1 ELSE 0]]]]

WaterMasks == {WaterMaskImage(w) : w \in 0 .. 2}

\* lines 376-381: the order in which the dataset cell maps the functions
Pipeline == <<"clp", "maskS2clouds", "maskS2snow", "maskWhite", "maskWater",
              "addNDVI">>

MaskSteps == {"maskS2clouds", "maskS2snow", "maskWhite", "maskWater"}

NotebookUnset ==
    /\ dataset = Undef
    /\ index = "" /\ analysis = ""
    /\ start_year = 0 /\ end_year = 0 /\ start_month = 0 /\ end_month = 0
    /\ index_collection = Undef /\ years = <<>>
    /\ intrayear_collection = Undef
    /\ yearwise_ndvi = Undef /\ yearwise_trend = Undef
    /\ yearCompCol = Undef /\ trend = Undef
    /\ trend_image = Undef /\ training = Undef /\ kmeansresult = Undef
    /\ df = Undef
    /\ lat = NoRegion /\ long = NoRegion /\ Map = Undef
    /\ ndvi_collection = Undef /\ img = Undef
    /\ cell = [name |-> "", ok |-> TRUE, n |-> 0]
    /\ queries = <<>>

AggIdle == call = [fn |-> "", y |-> 0] /\ result = Undef

InitMask ==
    /\ aoi \in Regions
    /\ waterMask \in WaterMasks
    /\ NotebookUnset
    /\ AggIdle
    /\ raw \in RawImages
    /\ raster = raw
    /\ before = raw
    /\ steps = <<>>
    /\ pipe = 0

\* one function mapped over the raster
MapStep(s, out) ==
    /\ raster' = out
    /\ before' = raster
    /\ steps' = IF steps = <<>> THEN <<s>> ELSE <<steps[Len(steps)], s>>
    /\ pipe' = IF pipe >= 0 /\ pipe < Len(Pipeline) /\ Pipeline[pipe + 1] = s
               THEN pipe + 1 ELSE -1
    /\ UNCHANGED <<raw, aoi, waterMask, dataset, config, derived,
                   kmeansvars, othervars, cell, queries, aggvars>>

MapClp == MapStep("clp", clp(raster))
\* maskS2clouds is mapped over rasters whose QA60 is the integer band of
\* the archive, as in the dataset cell
MapMaskS2clouds ==
    raster.k = 0 /\ MapStep("maskS2clouds", maskS2clouds(raster))
MapMaskS2snow == MapStep("maskS2snow", maskS2snow(raster))
MapMaskWhite == MapStep("maskWhite", maskWhite(raster))
MapMaskWater == MapStep("maskWater", maskWater(raster))
\* the index band is added once
MapAddNDVI == "NDVI" \notin SeqToSet(raster.bands) /\ MapStep("addNDVI", addNDVI(raster))

NextMask ==
    \/ MapClp
    \/ MapMaskS2clouds
    \/ MapMaskS2snow
    \/ MapMaskWhite
    \/ MapMaskWater
    \/ MapAddNDVI

SpecMask == InitMask /\ [][NextMask]_vars

----------------------------------------------------------------------------
(* SpecRepeat: the masking steps applied to a raster in any order and any  *)
(* number of times, maskS2clouds also to a raster it has divided already.  *)

\* the outcomes of the masking step s on an image
StepOutcomes(s, image) ==
    CASE s = "maskS2clouds" -> maskS2cloudsOutcomes(image)
      [] s = "maskS2snow"   -> {maskS2snow(image)}
      [] s = "maskWhite"    -> {maskWhite(image)}
      [] s = "maskWater"    -> {maskWater(image)}

\* the step s mapped over the raster; nothing can be mapped over a raster
\* that is an error
ApplyStep(s) ==
    /\ IsImage(raster)
    /\ s = "maskS2clouds" => raster.k < MaxDivides
    /\ \E out \in StepOutcomes(s, raster) : MapStep(s, out)

NextRepeat == \E s \in MaskSteps : ApplyStep(s)

SpecRepeat == InitMask /\ [][NextRepeat]_vars

----------------------------------------------------------------------------
(* The image archive and the dataset cell, lines 355-382.                  *)

ArchiveImage(year, month, cloudy, s) ==
    [RawImage(s) EXCEPT !.props =
        (TIME :> TimeStart(year, month))
            @@ ("CLOUDY_PIXEL_PERCENTAGE" :> cloudy)]

\* ee.ImageCollection("COPERNICUS/S2_SR_HARMONIZED")
Archive ==
    [kind |-> "collection",
     images |-> << ArchiveImage(2018, 7, 0, 1),
                   ArchiveImage(2019, 6, 1, 1),
                   ArchiveImage(2019, 7, 0, 6),
                   ArchiveImage(2019, 9, 2, 1),
                   ArchiveImage(2020, 6, 2, 7),
                   ArchiveImage(2020, 8, 0, 10),
                   ArchiveImage(2021, 6, 3, 1),
                   ArchiveImage(2021, 7, 40, 1),
                   ArchiveImage(2021, 8, 0, 9),
                   ArchiveImage(2022, 5, 0, 1),
                   ArchiveImage(2022, 7, 1, 7),
                   ArchiveImage(2023, 8, 4, 6),
                   ArchiveImage(2024, 7, 0, 1) >>,
     props |-> NoProps,
     region |-> NoRegion]

\* ee.ImageCollection.filterBounds: the images whose footprint (their pixels
\* with data) intersects the geometry
filterBounds(collection, region) ==
    Only({[c EXCEPT
              !.images = SelectSeq(c.images,
                  LAMBDA image : \E p \in Geometry(region) : image.px[p].m),
              !.region = region] :
          c \in {collection}})

\* ee.ImageCollection('MODIS/006/MOD44W') ... .first()
ModisWaterMask == WaterMaskImage(1)

\* lines 363-382, with the globals aoi and waterMask as they are
BuildDataset ==
    mapAll(mapAll(mapAll(mapAll(mapAll(mapAll(
        filterBounds(
            filter(filter(filter(Archive,
                                 calendarRange(2019, 2023, "year")),
                          calendarRange(6, 9, "month")),
                   lt("CLOUDY_PIXEL_PERCENTAGE", 5)),
            aoi),
        "clp"), "maskS2clouds"), "maskS2snow"), "maskWhite"), "maskWater"),
        "addNDVI")

----------------------------------------------------------------------------
(* Spec: the cells of the notebook.                                        *)

\* how many cells are run in one session
MaxRuns == 6

Ran(name, ok) == cell' = [name |-> name, ok |-> ok, n |-> cell.n + 1]

CanRun == cell.n < MaxRuns

Query(op, region) == [op |-> op, region |-> region]

\* a region cell as a bug would have it: the collections built with the
\* region before are invalidated
RegionCell_invalidating(name, region) ==
    /\ CanRun
    /\ aoi' = region
    /\ Ran(name, TRUE)
    /\ queries' = <<>>
    /\ dataset' = Undef
    /\ index_collection' = Undef
    /\ UNCHANGED <<waterMask, index, analysis, start_year, end_year,
                   start_month, end_month, years, derived, kmeansvars,
                   othervars, maskvars, aggvars>>

\* the regions whose cell also assigns lat and long
CentredRegions == {"basin", "point", "geojson"}

\* lines 287-292, 308-312, 330-336: the three region-selection cells, which
\* assign aoi and its centre lat, long; lines 626 and 661-663 assign aoi only
RegionCell(name, region) ==
    /\ CanRun
    /\ aoi' = region
    /\ IF region \in CentredRegions
       THEN lat' = region /\ long' = region
       ELSE UNCHANGED <<lat, long>>
    /\ Ran(name, TRUE)
    /\ queries' = <<>>
    /\ UNCHANGED <<waterMask, dataset, config, derived, kmeansvars,
                   Map, ndvi_collection, img, maskvars, aggvars>>

RegionOption1Cell == RegionCell("region option 1", "basin")
RegionOption2Cell == RegionCell("region option 2", "point")
RegionOption3Cell == RegionCell("region option 3", "geojson")

\* line 626: aoi = ee.FeatureCollection(Map.draw_features), of a map on
\* which a polygon has been drawn; a NameError if no cell has assigned Map
DrawnFeaturesCell ==
    IF Map = Undef
    THEN /\ CanRun
         /\ Ran("drawn features", FALSE)
         /\ queries' = <<>>
         /\ UNCHANGED <<aoi, waterMask, dataset, config, derived, kmeansvars,
                        othervars, maskvars, aggvars>>
    ELSE RegionCell("drawn features", "drawn")

\* lines 661-663: aoi = geemap.geojson_to_ee(geojson_path)
UploadGeoJSONCell == RegionCell("geojson upload", "upload")

\* geemap.Map(center, zoom)
geemap_Map(center) == [kind |-> "map", center |-> center]

\* lat and long in a notebook whose region is aoi: its own centre, or the
\* one of the region option that ran before a cell that assigns aoi only
CentreOf(region) == IF region \in CentredRegions THEN region ELSE "point"

\* line 391: Map = geemap.Map(center = (lat, long), zoom = 11); a NameError
\* if no cell has assigned lat and long
MapCell ==
    /\ CanRun
    /\ IF lat = NoRegion
       THEN UNCHANGED Map /\ Ran("map", FALSE)
       ELSE Map' = geemap_Map(<<lat, long>>) /\ Ran("map", TRUE)
    /\ queries' = <<>>
    /\ UNCHANGED <<aoi, waterMask, dataset, config, derived, kmeansvars,
                   lat, long, ndvi_collection, img, maskvars, aggvars>>

\* lines 355-382: waterMask is assigned first; building dataset raises a
\* NameError if no cell has assigned aoi
DatasetCell ==
    /\ CanRun
    /\ waterMask' = ModisWaterMask
    /\ UNCHANGED aoi
    /\ IF aoi = NoRegion
       THEN /\ UNCHANGED dataset
            /\ queries' = <<>>
            /\ Ran("dataset", FALSE)
       ELSE /\ dataset' = BuildDataset'
            /\ queries' = <<Query("filterBounds", aoi), Query("clip", aoi)>>
            /\ Ran("dataset", TRUE)
    /\ UNCHANGED <<config, derived, kmeansvars, othervars, maskvars,
                   aggvars>>

\* ee.List.sequence(start, end)
sequence(start, end) ==
    IF start > end THEN <<>> ELSE [i \in 1 .. (end - start + 1) |-> start + i - 1]

\* what the configuration cell may be edited to: the values of the source
\* (analysis 'max', 2019..2024, months 6..8) first
Configuration(a, ys, ms) == [analysis |-> a, years |-> ys, months |-> ms]
Configurations ==
    { Configuration("max", <<2019, 2024>>, <<6, 8>>),
      Configuration("max", <<2019, 2023>>, <<6, 8>>),
      Configuration("mean", <<2021, 2021>>, <<6, 9>>),
      Configuration("sum", <<2019, 2023>>, <<6, 8>>),
      Configuration("median", <<2023, 2019>>, <<6, 8>>) }

\* lines 408-423: the assignments up to end_month always happen; selecting
\* the index band raises a NameError if dataset is not defined, and then
\* index_collection and years keep their values
ConfigCell(a, ys, ms) ==
    /\ CanRun
    /\ index' = "NDVI"
    /\ analysis' = a
    /\ start_year' = ys[1]
    /\ end_year' = ys[2]
    /\ start_month' = ms[1]
    /\ end_month' = ms[2]
    /\ IF IsCollection(dataset)
       THEN /\ index_collection' = selectAll(dataset, <<"NDVI">>)
            /\ years' = sequence(ys[1], ys[2])
            /\ Ran("configuration", TRUE)
       ELSE /\ UNCHANGED <<index_collection, years>>
            /\ Ran("configuration", FALSE)
    /\ queries' = <<>>
    /\ UNCHANGED <<aoi, waterMask, dataset, derived, kmeansvars,
                   othervars, maskvars, aggvars>>

\* a call of the function named f, as ee.List.map makes it
InvokeOnYear(f, y) ==
    CASE f = "annual_images" -> annual_images(y)
      [] f = "annual_trend"  -> annual_trend(y)

\* ee.List.map(f): f is called once, on a placeholder, when the expression
\* is built; an exception it raises there aborts the caller
mapList(list, f) ==
    Only({IF IsRaise(built) THEN built
          ELSE [kind |-> "list",
                items |-> [i \in DOMAIN list |->
                              InvokeOnYear(f, list[i])]] :
          built \in {InvokeOnYear(f, 0)}})

\* years.map(annual_images) in a cell that has assigned last_month to
\* end_month before
mapAnnualImages(list, last_month) ==
    Only({IF IsRaise(built) THEN built
          ELSE [kind |-> "list",
                items |-> [i \in DOMAIN list |->
                              annual_images_until(list[i], last_month)]] :
          built \in {annual_images_until(0, last_month)}})

\* ee.ImageCollection.fromImages
fromImages(list) ==
    [kind |-> "collection", images |-> list.items, props |-> NoProps,
     region |-> NoRegion]

Failed(name) ==
    /\ Ran(name, FALSE)
    /\ queries' = <<>>
    /\ UNCHANGED <<aoi, waterMask, dataset, config, derived, kmeansvars,
                   othervars, maskvars, aggvars>>

\* lines 457-481: option 1, the temporal trend.  In the multi-year branch
\* yearCompCol and trend are assigned in the body of the loop over the
\* yearly items, so not at all when there is no item.
TemporalTrendCell ==
    /\ CanRun
    /\ IF index = "" THEN Failed("temporal trend")
       ELSE IF start_year = end_year
       THEN IF IsRaise(intrayear(index_collection))
            THEN Failed("temporal trend")
            ELSE /\ intrayear_collection' = intrayear(index_collection)
                 /\ trend' \in reduce(selectAll(intrayear_collection',
                                                <<TIME, index>>), "linearFit")
                 /\ Ran("temporal trend", TRUE)
                 /\ queries' = <<>>
                 /\ UNCHANGED <<aoi, waterMask, dataset, config,
                                yearwise_ndvi, yearwise_trend, yearCompCol,
                                kmeansvars, othervars, maskvars, aggvars>>
       ELSE \E built \in {mapList(years, "annual_images")} :
            IF IsRaise(built)
            THEN Failed("temporal trend")
            ELSE /\ yearwise_ndvi' = built
                 /\ IF years = <<>>
                    THEN UNCHANGED <<yearCompCol, trend>>
                    ELSE /\ yearCompCol' = fromImages(yearwise_ndvi')
                         /\ trend' \in reduce(
                                 selectAll(yearCompCol',
                                           <<"system:time_start_mean",
                                             Joined(<<index, analysis>>)>>),
                                 "linearFit")
                 /\ Ran("temporal trend", TRUE)
                 /\ queries' = <<>>
                 /\ UNCHANGED <<aoi, waterMask, dataset, config,
                                intrayear_collection, yearwise_trend,
                                kmeansvars, othervars, maskvars, aggvars>>

\* lines 498-506: option 2, the trend of the trend
TrendOfTrendCell ==
    /\ CanRun
    /\ \E built \in {mapList(years, "annual_trend")} :
       IF index = "" \/ IsRaise(built)
       THEN Failed("trend of trend")
       ELSE /\ yearwise_trend' = built
            /\ yearCompCol' = fromImages(yearwise_trend')
            /\ trend' \in reduce(yearCompCol', "linearFit")
            /\ Ran("trend of trend", TRUE)
            /\ queries' = <<>>
            /\ UNCHANGED <<aoi, waterMask, dataset, config,
                           intrayear_collection, yearwise_ndvi,
                           kmeansvars, othervars, maskvars, aggvars>>

\* lines 529-543: the colour range, two reduceRegion calls over aoi that are
\* evaluated at once; the first fails if trend has no band 'scale'
ColourRangeCell ==
    /\ CanRun
    /\ IF trend = Undef \/ aoi = NoRegion
       THEN Failed("colour range")
       ELSE /\ IF select(trend, <<"scale">>) = Error
               THEN /\ queries' = <<Query("reduceRegion", aoi)>>
                    /\ Ran("colour range", FALSE)
               ELSE /\ queries' = <<Query("reduceRegion", aoi),
                                    Query("reduceRegion", aoi)>>
                    /\ Ran("colour range", TRUE)
            /\ UNCHANGED <<aoi, waterMask, dataset, config, derived,
                           kmeansvars, othervars, maskvars, aggvars>>

\* the mean NDVI cell as a bug would have it: the region is the one the
\* collection was built with, not aoi
MeanNDVICell_collectionRegion ==
    /\ CanRun
    /\ IF ~IsCollection(index_collection) \/ aoi = NoRegion
       THEN Failed("mean NDVI")
       ELSE /\ ndvi_collection' =
                   mapAll(mapAll(index_collection, "clp"), "meanNDVI")
            /\ queries' = <<Query("clip", index_collection.region),
                            Query("reduceRegion", index_collection.region)>>
            /\ Ran("mean NDVI", TRUE)
            /\ UNCHANGED <<aoi, waterMask, dataset, config, derived,
                           kmeansvars, lat, long, Map, img, maskvars,
                           aggvars>>

\* lines 679-682: clp_collection = index_collection.map(clp) and
\* ndvi_collection = clp_collection.map(meanNDVI); clp and meanNDVI read aoi
MeanNDVICell ==
    /\ CanRun
    /\ IF ~IsCollection(index_collection) \/ aoi = NoRegion
       THEN Failed("mean NDVI")
       ELSE /\ ndvi_collection' =
                   mapAll(mapAll(index_collection, "clp"), "meanNDVI")
            /\ queries' = <<Query("clip", aoi), Query("reduceRegion", aoi)>>
            /\ Ran("mean NDVI", TRUE)
            /\ UNCHANGED <<aoi, waterMask, dataset, config, derived,
                           kmeansvars, lat, long, Map, img, maskvars,
                           aggvars>>

\* a feature of the dictionary that getInfo returns for a collection
FeatureInfo(image) == [kind |-> "dict", properties |-> image.props]

\* lines 694-705: image_list = ndvi_collection.getInfo(), the loop over its
\* features with the loop variable img, and df with a row per feature
NdviTableCell ==
    /\ CanRun
    /\ IF ndvi_collection = Undef
          \/ \E i \in DOMAIN ndvi_collection.images :
                 ~IsImage(ndvi_collection.images[i])
       THEN Failed("ndvi table")
       ELSE LET features == ndvi_collection.images IN
            /\ img' = IF features = <<>> THEN img
                      ELSE FeatureInfo(features[Len(features)])
            /\ df' = [kind |-> "table",
                      columns |-> <<"date", "ndvi_mean">>,
                      rows |-> {[image |-> i,
                                 date |->
                                     FormatDate(features[i].props[TIME]),
                                 ndvi_mean |->
                                    IF HasProp(features[i], "ndvi_mean")
                                    THEN features[i].props["ndvi_mean"]
                                    ELSE <<>>] :
                                   i \in DOMAIN features}]
            /\ Ran("ndvi table", TRUE)
            /\ queries' = <<>>
            /\ UNCHANGED <<aoi, waterMask, dataset, config, derived,
                           trend_image, training, kmeansresult,
                           lat, long, Map, ndvi_collection,
                           maskvars, aggvars>>

\* ee.ImageCollection.first: of an empty collection it is null
first(collection) ==
    IF collection.images = <<>> THEN Error ELSE collection.images[1]

\* line 933: trend_image = dataset.sort('NODATA_PIXEL_PERCENTAGE', False)
\* .first().select('B4', 'B3', 'B2'); no image of dataset carries that
\* property any more, which leaves the order as it is
TrendImageCell ==
    /\ CanRun
    /\ IF ~IsCollection(dataset) THEN Failed("trend image")
       ELSE /\ trend_image' = select(first(dataset), <<"B4", "B3", "B2">>)
            /\ Ran("trend image", TRUE)
            /\ queries' = <<>>
            /\ UNCHANGED <<aoi, waterMask, dataset, config, derived,
                           training, kmeansresult, df, othervars,
                           maskvars, aggvars>>

\* the image with the values of the band named name
WithValues(image, name, values) ==
    IF "vals" \in DOMAIN image
    THEN [image EXCEPT !.vals = (name :> values) @@ @]
    ELSE [f \in DOMAIN image \cup {"vals"} |->
             IF f = "vals" THEN (name :> values) ELSE image[f]]

\* ee.Image.rename(name) of a single-band image
rename(image, name) ==
    Only({IF IsImage(x)
          THEN LET values == [p \in Pixels |-> BandValue(x, x.bands[1], p)]
               IN  [WithValues(x, name, values)
                       EXCEPT !.bands = <<name>>,
                              !.vals = (name :> values)]
          ELSE Error :
          x \in {image}})

\* the name with a numerical suffix
Suffixed(name, n) == name \o "_" \o ToString(n)

\* ee.Image.addBands(src) of a single-band image, without overwrite: a band
\* whose name is taken is renamed with the first numerical suffix that is
\* free (foo_1, foo_2, ...); the band keeps its values and its mask
addBandsTo(dst, src) ==
    Only({IF ~IsImage(dst) \/ ~IsImage(s) THEN Error
          ELSE LET name == s.bands[1]
                   taken == SeqToSet(dst.bands)
                   free == {n \in 1 .. (Len(dst.bands) + 1) :
                               Suffixed(name, n) \notin taken}
                   suffix == CHOOSE n \in free : \A m \in free : n <= m
                   added == IF name \notin taken THEN name
                            ELSE Suffixed(name, suffix)
               IN  [WithValues(dst, added,
                               [p \in Pixels |-> BandValue(s, name, p)])
                       EXCEPT !.bands = Append(@, added)] :
          s \in {src}})

\* the last statement of the four band cells:
\* trend_image = trend_image.addBands(scale.rename(name)), scale being
\* trend.select(band); it raises a NameError if trend_image is not defined,
\* after the statements before it have taken effect
AddBandToTrendImage(cellname, band, name) ==
    IF trend_image = Undef
    THEN /\ UNCHANGED trend_image
         /\ Ran(cellname, FALSE)
    ELSE /\ trend_image' =
                addBandsTo(trend_image, rename(select(trend', <<band>>), name))
         /\ Ran(cellname, TRUE)

\* lines 942-954: the band 'trend', the trend of the trend once more
TrendBandCell ==
    /\ CanRun
    /\ \E built \in {mapList(years, "annual_trend")} :
       IF IsRaise(built)
       THEN Failed("trend band")
       ELSE /\ yearwise_trend' = built
            /\ yearCompCol' = fromImages(yearwise_trend')
            /\ trend' \in reduce(yearCompCol', "linearFit")
            /\ AddBandToTrendImage("trend band", "scale", "trend")
            /\ queries' = <<>>
            /\ UNCHANGED <<aoi, waterMask, dataset, config,
                           intrayear_collection, yearwise_ndvi,
                           training, kmeansresult, df, othervars,
                           maskvars, aggvars>>

\* lines 963-969: the band 'season', the mean of whatever yearCompCol holds
SeasonBandCell ==
    /\ CanRun
    /\ IF yearCompCol = Undef
       THEN Failed("season band")
       ELSE /\ trend' \in reduce(yearCompCol, "mean")
            /\ AddBandToTrendImage("season band", "scale_mean", "season")
            /\ queries' = <<>>
            /\ UNCHANGED <<aoi, waterMask, dataset, config,
                           intrayear_collection, yearwise_ndvi,
                           yearwise_trend, yearCompCol,
                           training, kmeansresult, df, othervars,
                           maskvars, aggvars>>

\* lines 978-993: the band 'temporal', the year-over-year fit of 'NDVI_max'
TemporalBandCell ==
    /\ CanRun
    /\ \E built \in {mapList(years, "annual_images")} :
       IF IsRaise(built)
       THEN Failed("temporal band")
       ELSE /\ yearwise_ndvi' = built
            /\ yearCompCol' = fromImages(yearwise_ndvi')
            /\ trend' \in reduce(selectAll(yearCompCol',
                                           <<"system:time_start_mean",
                                             "NDVI_max">>),
                                 "linearFit")
            /\ AddBandToTrendImage("temporal band", "scale", "temporal")
            /\ queries' = <<>>
            /\ UNCHANGED <<aoi, waterMask, dataset, config,
                           intrayear_collection, yearwise_trend,
                           training, kmeansresult, df, othervars,
                           maskvars, aggvars>>

\* lines 1002-1020: the band 'june'; end_month = 6 is assigned first, also
\* when the rest of the cell fails, and annual_images reads the new value
JuneBandCell ==
    /\ CanRun
    /\ end_month' = 6
    /\ UNCHANGED <<index, analysis, start_year, end_year, start_month,
                   index_collection, years>>
    /\ \E built \in {mapAnnualImages(years, 6)} :
       IF IsRaise(built)
       THEN /\ Ran("june band", FALSE)
            /\ UNCHANGED <<derived, trend_image>>
       ELSE /\ yearwise_ndvi' = built
            /\ yearCompCol' = fromImages(yearwise_ndvi')
            /\ trend' \in reduce(selectAll(yearCompCol',
                                           <<"system:time_start_mean",
                                             Joined(<<index, analysis>>)>>),
                                 "linearFit")
            /\ AddBandToTrendImage("june band", "scale", "june")
            /\ UNCHANGED <<intrayear_collection, yearwise_trend>>
    /\ queries' = <<>>
    /\ UNCHANGED <<aoi, waterMask, dataset, training, kmeansresult, df,
                   othervars, maskvars, aggvars>>

\* ee.Image.sample(region, scale, numPixels): a table of pixels of the image
\* inside the region, with one column per band
sample(image, region) ==
    [kind |-> "sample", image |-> image, region |-> region]

\* the rows of a sample: the pixels of the region where every band of the
\* image is valid (the region holds fewer pixels than numPixels, so all of
\* them are drawn)
Features(fc) ==
    IF ~IsImage(fc.image) THEN {}
    ELSE {p \in Geometry(fc.region) :
             \A i \in DOMAIN fc.image.bands :
                 BandValue(fc.image, fc.image.bands[i], p).d # 0}

\* lines 1036-1042: img = trend_image.select('temporal', 'season', 'june')
\* and training = img.sample(region=aoi, ...), a NameError if aoi is not
\* assigned, after img has been
TrainingSampleCell ==
    /\ CanRun
    /\ IF trend_image = Undef THEN Failed("training")
       ELSE /\ img' = select(trend_image, <<"temporal", "season", "june">>)
            /\ IF aoi = NoRegion
               THEN /\ UNCHANGED training
                    /\ queries' = <<>>
                    /\ Ran("training", FALSE)
               ELSE /\ training' = sample(img', aoi)
                    /\ queries' = <<Query("sample", aoi)>>
                    /\ Ran("training", TRUE)
            /\ UNCHANGED <<aoi, waterMask, dataset, config, derived,
                           trend_image, kmeansresult, df,
                           lat, long, Map, ndvi_collection,
                           maskvars, aggvars>>

\* ee.Clusterer.wekaKMeans(nClusters), not trained yet
wekaKMeans(nClusters) ==
    [kind |-> "clusterer", nClusters |-> nClusters, schema |-> <<>>]

\* ee.Clusterer.train(features): the input names are the columns of the
\* table; a table that cannot be computed or has no row cannot be trained on
train(clusterer, features) ==
    IF Features(features) = {} THEN Error
    ELSE [clusterer EXCEPT !.schema = features.image.bands]

\* ee.Image.cluster(clusterer): one band, 'cluster', valid where the input
\* bands are valid; the image has to have the bands the clusterer was
\* trained on.  Which numbers the platform's clusterer labels the pixels
\* with is not in the notebook: the label is a number that is not carried.
cluster(image, clusterer) ==
    IF ~IsImage(image) \/ clusterer = Error THEN Error
    ELSE IF image.bands # clusterer.schema THEN Error
    ELSE [f \in DOMAIN image \cup {"inputs", "vals"} |->
             CASE f = "bands"  -> <<"cluster">>
               [] f = "inputs" -> image.bands
               [] f = "vals"   ->
                    ("cluster" :>
                        [p \in Pixels |->
                            IF \A i \in DOMAIN image.bands :
                         BandValue(image, image.bands[i], p).d # 0
                            THEN Unvalued ELSE Masked])
               [] OTHER        -> image[f]]

\* lines 1058-1060: kmeans = ee.Clusterer.wekaKMeans(4).train(training), a
\* NameError if training is not assigned, and kmeansresult =
\* img.cluster(kmeans), an AttributeError if img is the dictionary that the
\* loop of the NDVI table left in it
KMeansCell ==
    /\ CanRun
    /\ IF training = Undef \/ img.kind = "dict" THEN Failed("kmeans")
       ELSE /\ LET kmeans == train(wekaKMeans(4), training)
               IN  IF kmeans = Error
                   THEN kmeansresult' = Error
                   ELSE kmeansresult' = cluster(img, kmeans)
            /\ queries' = <<>>
            /\ Ran("kmeans", TRUE)
            /\ UNCHANGED <<aoi, waterMask, dataset, config, derived,
                           trend_image, training, df, othervars,
                           maskvars, aggvars>>

\* the band src.bands[i] added to dst, for i from n down to 1
RECURSIVE addBandsUpTo(_, _, _)
addBandsUpTo(dst, src, n) ==
    IF ~IsImage(src) THEN Error
    ELSE IF n = 0 THEN dst
    ELSE addBandsTo(addBandsUpTo(dst, src, n - 1),
                    select(src, <<src.bands[n]>>))

\* lines 1099-1108: the rows of the table df, one for each feature of the
\* sample, with the label in the column 'cluster'
DataFrame(fc) ==
    [kind |-> "table",
     columns |-> <<"trend", "temporal", "season", "june", "cluster">>,
     rows |-> {[pixel |-> p,
                cluster |-> BandValue(fc.image, "cluster", p)] :
                  p \in Features(fc)}]

\* lines 1097-1108: kmeansresult.addBands(trend_image.select('trend',
\* 'temporal', 'season', 'june')).sample(region=aoi, ...).getInfo(), and df
\* made of its features; getInfo raises if the image cannot be computed
ExportSampleCell ==
    /\ CanRun
    /\ IF kmeansresult = Undef \/ trend_image = Undef \/ aoi = NoRegion
       THEN Failed("export sample")
       ELSE LET src == select(trend_image,
                              <<"trend", "temporal", "season", "june">>)
                fc == sample(addBandsUpTo(kmeansresult, src, 4), aoi)
            IN  /\ queries' = <<Query("sample", aoi)>>
                /\ Ran("export sample", IsImage(fc.image))
                /\ df' = IF IsImage(fc.image) THEN DataFrame(fc) ELSE df
                /\ UNCHANGED <<aoi, waterMask, dataset, config, derived,
                               trend_image, training, kmeansresult,
                               othervars, maskvars, aggvars>>

InitNotebook ==
    /\ aoi = NoRegion
    /\ waterMask = Undef
    /\ NotebookUnset
    /\ AggIdle
    /\ raw = Undef /\ raster = Undef /\ before = Undef
    /\ steps = <<>> /\ pipe = 0

Next ==
    \/ RegionOption1Cell
    \/ RegionOption2Cell
    \/ RegionOption3Cell
    \/ DatasetCell
    \/ MapCell
    \/ \E c \in Configurations : ConfigCell(c.analysis, c.years, c.months)
    \/ TemporalTrendCell
    \/ TrendOfTrendCell
    \/ ColourRangeCell
    \/ DrawnFeaturesCell
    \/ UploadGeoJSONCell
    \/ MeanNDVICell
    \/ NdviTableCell
    \/ TrendImageCell
    \/ TrendBandCell
    \/ SeasonBandCell
    \/ TemporalBandCell
    \/ JuneBandCell
    \/ TrainingSampleCell
    \/ KMeansCell
    \/ ExportSampleCell

Spec == InitNotebook /\ [][Next]_vars

----------------------------------------------------------------------------
(* SpecAgg: calls of the aggregation functions of lines 136-243 on a       *)
(* collection built as the dataset and configuration cells build it.       *)

\* values of the globals the functions read
AggAnalyses == Analyses \cup {"sum"}
AggYears == {<<2019, 2024>>, <<2021, 2021>>}
AggMonths == {<<6, 8>>, <<6, 9>>, <<9, 6>>}
\* the years the functions are called with
CallYears == 2018 .. 2024

InitAgg ==
    /\ aoi \in Regions
    /\ waterMask = ModisWaterMask
    /\ dataset = BuildDataset
    /\ index = "NDVI"
    /\ analysis \in AggAnalyses
    /\ \E ys \in AggYears :
          /\ start_year = ys[1]
          /\ end_year = ys[2]
          /\ years = sequence(ys[1], ys[2])
    /\ \E ms \in AggMonths : start_month = ms[1] /\ end_month = ms[2]
    /\ index_collection = selectAll(dataset, <<"NDVI">>)
    /\ intrayear_collection = Undef
    /\ yearwise_ndvi = Undef /\ yearwise_trend = Undef
    /\ yearCompCol = Undef /\ trend = Undef
    /\ trend_image = Undef /\ training = Undef /\ kmeansresult = Undef
    /\ df = Undef
    /\ lat = CentreOf(aoi) /\ long = CentreOf(aoi)
    /\ Map = geemap_Map(<<lat, long>>)
    /\ ndvi_collection = Undef /\ img = Undef
    /\ cell = [name |-> "", ok |-> TRUE, n |-> 0]
    /\ queries = <<>>
    /\ AggIdle
    /\ raw = Undef /\ raster = Undef /\ before = Undef
    /\ steps = <<>> /\ pipe = 0

Called(fn, y, value) ==
    /\ call' = [fn |-> fn, y |-> y]
    /\ result' = value
    /\ UNCHANGED <<aoi, waterMask, dataset, config, derived, kmeansvars,
                   cell, queries, othervars, maskvars>>

CallAnnualImages(y) == Called("annual_images", y, annual_images(y))
CallAnnualTrend(y) == Called("annual_trend", y, annual_trend(y))
CallIntrayear == Called("intrayear", 0, intrayear(index_collection))

NextAgg ==
    \/ \E y \in CallYears : CallAnnualImages(y)
    \/ \E y \in CallYears : CallAnnualTrend(y)
    \/ CallIntrayear

SpecAgg == InitAgg /\ [][NextAgg]_vars

----------------------------------------------------------------------------
(* SpecFit: annual_images and the year-over-year fit of the temporal-trend *)
(* cell, lines 136-183 and 468-481, evaluated with the values of the       *)
(* pixels on a synthetic series of images.                                 *)

\* line 182: the band <band>_<output> of stats at the pixel p
annual_value(y, band, output, p) ==
    Only({BandValue(stats, Joined(<<band, output>>), p) :
          stats \in {annual_images(y)}})

\* the synthetic series: three consecutive years, an image in each, at every
\* pixel B8 - B4 one of 200, 400, 600 and B8 + B4 = 1000; the second year may
\* have one more image
FitYears == <<2019, 2020, 2021>>
FitMonths == {6, 8}
IndexValues == {200, 400, 600}
FitAnalyses == {"max", "min", "mean"}

SyntheticImage(year, month, n) ==
    [kind |-> "image",
     bands |-> RawBands,
     props |-> (TIME :> TimeStart(year, month))
                  @@ ("CLOUDY_PIXEL_PERCENTAGE" :> 0),
     k |-> 0,
     px |-> [p \in Pixels |->
                Pixel(TRUE, 0, 0, 500, 500,
                      (1000 - n) \div 2, (1000 + n) \div 2)]]

SyntheticSeries(ms, ns) ==
    [i \in DOMAIN FitYears |-> SyntheticImage(FitYears[i], ms[i], ns[i])]

\* the second image of the second year, if any
SecondImages ==
    {<<>>} \cup {<<SyntheticImage(FitYears[2], 7, n)>> : n \in IndexValues}

InitFit ==
    /\ aoi = "basin"
    /\ waterMask = Undef
    /\ \E ms \in [DOMAIN FitYears -> FitMonths],
          ns \in [DOMAIN FitYears -> IndexValues],
          second \in SecondImages :
          dataset = mapAll([kind |-> "collection",
                            images |-> SyntheticSeries(ms, ns) \o second,
                            props |-> NoProps,
                            region |-> NoRegion],
                           "addNDVI")
    /\ index = "NDVI"
    /\ analysis \in FitAnalyses
    /\ start_year = FitYears[1]
    /\ end_year = FitYears[Len(FitYears)]
    /\ start_month = 6
    /\ end_month = 8
    /\ index_collection = selectAll(dataset, <<"NDVI">>)
    /\ years = sequence(start_year, end_year)
    /\ intrayear_collection = Undef
    /\ yearwise_ndvi = Undef /\ yearwise_trend = Undef
    /\ yearCompCol = Undef /\ trend = Undef
    /\ trend_image = Undef /\ training = Undef /\ kmeansresult = Undef
    /\ df = Undef
    /\ lat = CentreOf(aoi) /\ long = CentreOf(aoi)
    /\ Map = geemap_Map(<<lat, long>>)
    /\ ndvi_collection = Undef /\ img = Undef
    /\ cell = [name |-> "", ok |-> TRUE, n |-> 0]
    /\ queries = <<>>
    /\ AggIdle
    /\ raw = Undef /\ raster = Undef /\ before = Undef
    /\ steps = <<>> /\ pipe = 0

\* annual_images(y), lines 136-183, with the values of its band
\* <index>_<analysis> and of system:time_start_mean
EvaluateAnnualImages(y) ==
    Called("annual_images", y,
           [image |-> annual_images(y),
            value |-> [p \in Pixels |->
                          annual_value(y, index, analysis, p)],
            time  |-> [p \in Pixels |->
                          annual_value(y, TIME, "mean", p)]])

\* the multi-year branch as a bug would have it: the bands are selected
\* index first, as annual_trend hands them to the reducer, so the fit is of
\* the time on the index
EvaluateTrend_indexFirst ==
    /\ yearwise_ndvi' = mapList(years, "annual_images")
    /\ yearCompCol' = fromImages(yearwise_ndvi')
    /\ trend' \in reduce(selectAll(yearCompCol',
                                   <<Joined(<<index, analysis>>),
                                     "system:time_start_mean">>),
                         "linearFit")
    /\ call' = [fn |-> "linearFit", y |-> 0]
    /\ result' = [image |-> trend',
                  scale |-> [p \in Pixels |-> BandValue(trend', "scale", p)]]
    /\ UNCHANGED <<aoi, waterMask, dataset, config, intrayear_collection,
                   yearwise_trend, kmeansvars, cell, queries, othervars,
                   maskvars>>

\* lines 471-481, the multi-year branch of the temporal-trend cell on the
\* configuration of this specification (a valid analysis, years not empty):
\* it assigns yearwise_ndvi, yearCompCol and trend; result holds trend with
\* the values of its band 'scale': x is system:time_start_mean, y is
\* <index>_<analysis>
EvaluateTrend ==
    /\ yearwise_ndvi' = mapList(years, "annual_images")
    /\ yearCompCol' = fromImages(yearwise_ndvi')
    /\ trend' \in reduce(selectAll(yearCompCol',
                                   <<"system:time_start_mean",
                                     Joined(<<index, analysis>>)>>),
                         "linearFit")
    /\ call' = [fn |-> "linearFit", y |-> 0]
    /\ result' = [image |-> trend',
                  scale |-> [p \in Pixels |-> BandValue(trend', "scale", p)]]
    /\ UNCHANGED <<aoi, waterMask, dataset, config, intrayear_collection,
                   yearwise_trend, kmeansvars, cell, queries, othervars,
                   maskvars>>

NextFit ==
    \/ \E y \in SeqToSet(FitYears) : EvaluateAnnualImages(y)
    \/ EvaluateTrend

SpecFit == InitFit /\ [][NextFit]_vars

----------------------------------------------------------------------------
(* Properties of the aggregation functions (SpecAgg).                      *)

\* C3: a call of annual_images while analysis is none of 'mean', 'median',
\* 'min', 'max' ends in an exception and returns no image.
AnnualImagesRejectsInvalidAnalysis ==
    (call.fn = "annual_images" /\ analysis \notin Analyses) =>
        (IsRaise(result) /\ ~IsImage(result))

\* annual_images called with analysis 'sum' for a year that has images in
\* the month window: the call ended in the UnboundLocalError
AnnualImagesRejectsInvalidAnalysisWitness ==
    /\ call.fn = "annual_images"
    /\ analysis = "sum"
    /\ result = Raise("UnboundLocalError")
    /\ \E i \in DOMAIN index_collection.images :
          YearOf(index_collection.images[i].props[TIME]) = call.y

\* the month window of the configuration; it wraps over the end of the year
\* when start_month > end_month
InMonthWindow(m) ==
    IF start_month <= end_month
    THEN start_month <= m /\ m <= end_month
    ELSE m >= start_month \/ m <= end_month

\* the images of index_collection captured in year y, in the month window
Qualifying(y) ==
    {i \in DOMAIN index_collection.images :
        /\ YearOf(index_collection.images[i].props[TIME]) = y
        /\ InMonthWindow(MonthOf(index_collection.images[i].props[TIME]))}

\* C4: with analysis one of the four modes, annual_images(y) returns an
\* image whose 'year' is y and whose 'num' is the number of images of
\* index_collection captured in year y within the month window, zero
\* included; annual_trend(y) sets 'year' and 'num' likewise.
AnnualCountIsNumberOfQualifyingImages ==
    ((call.fn = "annual_images" /\ analysis \in Analyses)
        \/ call.fn = "annual_trend") =>
        /\ IsImage(result)
        /\ HasProp(result, "year") /\ result.props["year"] = call.y
        /\ HasProp(result, "num")
        /\ result.props["num"] = Cardinality(Qualifying(call.y))

\* annual_images in mode 'median' for a year of which two images qualify
\* while a third lies outside the month window
AnnualCountIsNumberOfQualifyingImagesWitness ==
    /\ call.fn = "annual_images"
    /\ analysis = "median"
    /\ IsImage(result)
    /\ result.props["num"] = 2
    /\ \E i \in DOMAIN index_collection.images :
          /\ YearOf(index_collection.images[i].props[TIME]) = call.y
          /\ i \notin Qualifying(call.y)

----------------------------------------------------------------------------
(* Properties of the notebook (Spec).                                      *)

Items(list) == IF list = Undef THEN {} ELSE SeqToSet(list.items)

\* the temporal-trend cell has just assigned trend
TemporalTrendAssigned ==
    /\ cell.name = "temporal trend" /\ cell.ok
    /\ start_year = end_year \/ years # <<>>

\* the fits the notebook has computed: the yearly fits of annual_trend, and
\* the raster the temporal-trend cell assigned to trend
Fits ==
    {f \in Items(yearwise_trend) : IsImage(f) /\ f.bands # <<>>}
        \cup (IF TemporalTrendAssigned /\ IsImage(trend)
              THEN {trend} ELSE {})

\* C1: in every trend fit (the single-year fit, the fit of annual_trend for
\* a year, the year-over-year fit of the annual aggregates) the first input
\* of the linear fit, x, is the time band and the second, y, the index band.
FitsRegressIndexOnTime ==
    \A f \in Fits :
        f.inputs \in {<<TIME, index>>,
                      <<"system:time_start_mean", Joined(<<index, analysis>>)>>}

\* C2: the trend-of-the-trend cell (and the cell of the band 'trend', which
\* repeats it) fits, over the years, the slope of each annual_trend image
\* (y) against its year or time (x).
TrendOfTrendRegressesSlopeOnYear ==
    (cell.name \in {"trend of trend", "trend band"} /\ cell.ok
        /\ IsImage(trend) /\ trend.inputs # <<>>) =>
        /\ trend.inputs[1] \in {"year", TIME, "system:time_start_mean"}
        /\ trend.inputs[2] = "scale"

\* a list of yearly rasters with a year for which no image qualified
HasEmptyYear(list) ==
    \E f \in Items(list) : IsImage(f) /\ f.props["num"] = 0

\* C5: when a year of start_year..end_year has no qualifying image, the
\* cells that map annual_images or annual_trend over the years still yield
\* a statistic image with its bands for that year and a trend raster.
EmptyYearStillYieldsTrend ==
    /\ (cell.name = "temporal trend" /\ cell.ok /\ start_year # end_year
           /\ HasEmptyYear(yearwise_ndvi)) =>
          /\ IsImage(trend)
          /\ \A f \in Items(yearwise_ndvi) : f.bands # <<>>
    /\ (cell.name = "trend of trend" /\ cell.ok
           /\ HasEmptyYear(yearwise_trend)) =>
          /\ IsImage(trend)
          /\ \A f \in Items(yearwise_trend) : f.bands # <<>>

\* the yearly rasters and the single-year collection carry 'num'
YearlyRastersCarryCount ==
    /\ \A f \in Items(yearwise_ndvi) \cup Items(yearwise_trend) :
          IsImage(f) /\ HasProp(f, "num") /\ f.props["num"] \in Nat
    /\ IsCollection(intrayear_collection) =>
          /\ HasProp(intrayear_collection, "num")
          /\ intrayear_collection.props["num"]
                = size(intrayear_collection)

\* C6 as stated: every yearly raster and every raster assigned to trend
\* carries the count of the source images that contributed to it.
EveryRasterCarriesCount ==
    /\ YearlyRastersCarryCount
    /\ IsImage(trend) => HasProp(trend, "num")

\* C6, amended: the yearly images of annual_images and annual_trend and the
\* single-year collection of intrayear carry 'num'; the rasters assigned to
\* trend carry no property at all, so no count.
YearlyRastersCarryCountTrendNone ==
    /\ YearlyRastersCarryCount
    /\ IsImage(trend) => DOMAIN trend.props = {}

\* the trend-of-trend cell has produced the yearly fits, each with its
\* count, and a trend raster
YearlyRastersCarryCountTrendNoneWitness ==
    /\ cell.name = "trend of trend" /\ cell.ok
    /\ IsImage(trend)
    /\ Len(yearwise_trend.items) >= 2
    /\ \A f \in Items(yearwise_trend) : f.props["num"] >= 1

\* the cells that assign aoi
SelectionCells == {"region option 1", "region option 2", "region option 3"}
ReassignmentCells == {"drawn features", "geojson upload"}

\* C10 as stated: once aoi is assigned, only a run of one of the three
\* region-selection cells gives it another value, and the region of every
\* query is aoi.
AoiImmutableOnceSelected ==
    [][/\ (aoi # NoRegion /\ cell'.name \notin SelectionCells) => aoi' = aoi
       /\ \A i \in DOMAIN queries' : queries'[i].region = aoi']_vars

\* C10, amended: aoi changes only when one of the three region-selection
\* cells, the drawn-features cell or the GeoJSON-upload cell runs, and the
\* region of every query a cell issues is the aoi of the moment it runs.
AoiChangesOnlyInRegionCells ==
    [][/\ aoi' # aoi => cell'.name \in SelectionCells \cup ReassignmentCells
       /\ \A i \in DOMAIN queries' : queries'[i].region = aoi']_vars

\* the mean NDVI cell ran after the drawn-features cell replaced the region
\* the dataset was built with
AoiChangesOnlyInRegionCellsWitness ==
    /\ cell.name = "mean NDVI" /\ cell.ok
    /\ aoi = "drawn"
    /\ IsCollection(dataset) /\ dataset.region = "basin"
    /\ queries # <<>>

\* the cells that map annual_trend, and those that map annual_images, over
\* the years
AnnualTrendCells == {"trend of trend", "trend band"}
AnnualImagesCells == {"temporal trend", "temporal band", "june band"}

\* the yearly counts of a list are those of the month window as it is now
CountsOfCurrentWindow(list) ==
    /\ Len(list.items) = Len(years)
    /\ \A i \in DOMAIN list.items :
          list.items[i].props["num"] = Cardinality(Qualifying(years[i]))

\* C15: end_month changes only in the configuration cell and in the June
\* cell, which sets it to 6; and every run of a cell that maps annual_images
\* or annual_trend over the years counts, and so filters, the months
\* start_month..end_month of the moment: from the June cell on that is
\* start_month..6, until the configuration cell runs again.
StaleEndMonthIsRead ==
    [][/\ end_month' # end_month =>
             cell'.name \in {"configuration", "june band"}
       /\ cell'.name = "june band" => end_month' = 6
       /\ (cell'.name \in AnnualTrendCells /\ cell'.ok) =>
             CountsOfCurrentWindow(yearwise_trend)'
       /\ (cell'.name \in AnnualImagesCells /\ cell'.ok
              /\ start_year' # end_year') =>
             CountsOfCurrentWindow(yearwise_ndvi)']_vars

\* the trend-of-trend cell has run after the June cell: end_month is 6 and
\* an image of one of the years was left out of its count
StaleEndMonthIsReadWitness ==
    /\ cell.name = "trend of trend" /\ cell.ok
    /\ end_month = 6
    /\ \E i \in DOMAIN yearwise_trend.items :
          yearwise_trend.items[i].props["num"]
              < Cardinality({j \in DOMAIN index_collection.images :
                    YearOf(index_collection.images[j].props[TIME])
                        = years[i]})

\* a collection is bounded by and clipped to its region: every image has data
\* inside the region, and none outside
BoundedAndClippedTo(collection, region) ==
    /\ collection.region = region
    /\ \A i \in DOMAIN collection.images :
          /\ \A p \in Pixels :
                collection.images[i].px[p].m => p \in Geometry(region)
          /\ \E j \in DOMAIN Archive.images :
                /\ Archive.images[j].props[TIME]
                      = collection.images[i].props[TIME]
                /\ \E p \in Geometry(region) : Archive.images[j].px[p].m

\* C16: a cell that assigns aoi leaves dataset and index_collection as they
\* are; dataset is bounded by and clipped to the aoi of the run of the
\* dataset cell that built it, and changes in no other cell; every cell that
\* reads aoi when it runs queries the region aoi is then.
ReassigningAoiKeepsDataset ==
    [][/\ cell'.name \in SelectionCells \cup ReassignmentCells =>
             (dataset' = dataset /\ index_collection' = index_collection)
       /\ (cell'.name = "dataset" /\ cell'.ok) =>
             BoundedAndClippedTo(dataset', aoi')
       /\ dataset' # dataset => cell'.name = "dataset"
       /\ index_collection' # index_collection =>
             (cell'.name = "configuration"
                /\ index_collection'.region = dataset.region)
       /\ \A i \in DOMAIN queries' :
             queries'[i].region = aoi' /\ aoi' = aoi]_vars

\* the training sample is taken over the uploaded region while dataset is
\* still the one built for the point region, and differs from the one the
\* dataset cell would build now
ReassigningAoiKeepsDatasetWitness ==
    /\ cell.name = "training" /\ cell.ok
    /\ aoi = "upload"
    /\ queries = <<Query("sample", "upload")>>
    /\ IsCollection(dataset) /\ BoundedAndClippedTo(dataset, "point")
    /\ dataset # BuildDataset

\* the bands a cell selects from the yearly statistic images before the fit
SelectedBands(name) ==
    IF name = "temporal band"
    THEN <<"system:time_start_mean", "NDVI_max">>
    ELSE <<"system:time_start_mean", Joined(<<index, analysis>>)>>

\* C17: with analysis one of the four modes, each cell that fits the
\* year-over-year trend of the output of annual_images (temporal trend,
\* 'temporal' band, 'june' band) selects only bands that the yearly images
\* of a year with images contain.
YearOverYearSelectsExistingBands ==
    (cell.name \in AnnualImagesCells /\ analysis \in Analyses
        /\ (cell.name = "temporal trend" =>
               (cell.ok /\ start_year # end_year))) =>
        \A f \in Items(yearwise_ndvi) :
            f.bands # <<>> =>
                SeqToSet(SelectedBands(cell.name)) \subseteq SeqToSet(f.bands)

\* C18: whenever the cell of the band 'season' has run, after any cells,
\* yearCompCol is the collection of the linear fits of annual_trend, and the
\* mean over it that the cell assigns to trend has the band 'scale_mean'.
SeasonMeanReadsAnnualTrendFits ==
    cell.name = "season band" =>
        /\ yearCompCol # Undef
        /\ yearwise_trend # Undef
        /\ yearCompCol = fromImages(yearwise_trend)
        /\ (IsImage(trend) /\ \E f \in Items(yearwise_trend) : f.bands # <<>>) =>
               "scale_mean" \in SeqToSet(trend.bands)

\* the outcomes of the fit the temporal-trend cell computes from the
\* configuration of the moment: over the images of the year, or over the
\* yearly statistics
TrendOfCurrentConfiguration ==
    IF start_year = end_year
    THEN reduce(selectAll(intrayear(index_collection), <<TIME, index>>),
                "linearFit")
    ELSE reduce(selectAll(fromImages(mapList(years, "annual_images")),
                          <<"system:time_start_mean",
                            Joined(<<index, analysis>>)>>),
                "linearFit")

\* C19: whenever the temporal-trend cell has completed without error, for
\* any start_year and end_year (start_year > end_year included), trend is
\* the fit that this execution computed from the current configuration.
TemporalTrendCellAssignsTrend ==
    (cell.name = "temporal trend" /\ cell.ok) =>
        /\ trend # Undef
        /\ trend \in TrendOfCurrentConfiguration

----------------------------------------------------------------------------
(* Properties of the fit on the synthetic series (SpecFit).                *)

\* the images of the synthetic dataset acquired in the year y
ImagesOfYear(y) ==
    {image \in SeqToSet(dataset.images) : YearOf(image.props[TIME]) = y}

\* there is one image per year, and at every pixel the index of the image of
\* the i-th year is ns[i] / 1000
HasSeries(ns) ==
    \A i \in DOMAIN FitYears :
        /\ Cardinality(ImagesOfYear(FitYears[i])) = 1
        /\ \A image \in ImagesOfYear(FitYears[i]), p \in Pixels :
              image.px[p].nd = [m |-> TRUE, n |-> ns[i], d |-> 1000, k |-> 0]

\* the images are a calendar year apart, 365 or 366 days
OneYearApart ==
    \A image1, image2 \in SeqToSet(dataset.images) :
        MonthOf(image1.props[TIME]) = MonthOf(image2.props[TIME])

\* the yearly values the fit is made over, at the pixel p
AnnualSeries(p) ==
    [i \in DOMAIN years |-> annual_value(years[i], index, analysis, p)]

Increasing(series) ==
    \A i \in DOMAIN series :
        i > 1 => series[i - 1].n * series[i].d < series[i].n * series[i - 1].d

Decreasing(series) ==
    \A i \in DOMAIN series :
        i > 1 => series[i - 1].n * series[i].d > series[i].n * series[i - 1].d

\* C11: on a series of one image per year with the index 0.2, 0.4, 0.6 over
\* three consecutive years, annual_images with analysis 'max' gives the
\* values 0.2, 0.4, 0.6 with num = 1, and the year-over-year fit over them a
\* slope of about 0.2 per unit of time, the 3.154e10 ms of a year (within a
\* twentieth of it for images a calendar year apart, within a tenth of it
\* for any dates in the months 6..8); and on any series the slope is
\* positive if the yearly values increase and negative if they decrease.
SyntheticSeriesSlope ==
    /\ \A i \in DOMAIN FitYears :
          (/\ call = [fn |-> "annual_images", y |-> FitYears[i]]
           /\ analysis = "max"
           /\ HasSeries(<<200, 400, 600>>)) =>
              /\ result.image.props["num"] = 1
              /\ \A p \in Pixels :
                    /\ result.value[p].d > 0
                    /\ 1000 * result.value[p].n =
                          <<200, 400, 600>>[i] * result.value[p].d
    /\ (call.fn = "linearFit" /\ analysis = "max"
           /\ HasSeries(<<200, 400, 600>>)) =>
          \A p \in Pixels :
              /\ result.scale[p].d > 0
              /\ 18 * result.scale[p].d <= 100 * result.scale[p].n
              /\ 100 * result.scale[p].n <= 22 * result.scale[p].d
              /\ OneYearApart =>
                    /\ 19 * result.scale[p].d <= 100 * result.scale[p].n
                    /\ 100 * result.scale[p].n <= 21 * result.scale[p].d
    /\ call.fn = "linearFit" =>
          \A p \in Pixels :
              /\ Increasing(AnnualSeries(p)) =>
                    (result.scale[p].d > 0 /\ result.scale[p].n > 0)
              /\ Decreasing(AnnualSeries(p)) =>
                    (result.scale[p].d > 0 /\ result.scale[p].n < 0)

\* the fit of the series 0.2, 0.4, 0.6 of images of the 15th of June has
\* been evaluated: it is what trend is assigned, and its slope is
\* 5763935/28855512, about 0.19975, the images being 366 and 365 days apart
SyntheticSeriesSlopeWitness ==
    /\ call.fn = "linearFit" /\ analysis = "max"
    /\ HasSeries(<<200, 400, 600>>)
    /\ OneYearApart
    /\ IsImage(result.image)
    /\ result.image.inputs = <<"system:time_start_mean", "NDVI_max">>
    /\ \A image \in SeqToSet(dataset.images) :
          FormatDate(image.props[TIME]) \in
              {"2019-06-15", "2020-06-15", "2021-06-15"}
    /\ trend = result.image
    /\ \A p \in Pixels : result.scale[p] = Rational(5763935, 28855512)
    /\ Increasing(AnnualSeries(1))

----------------------------------------------------------------------------
(* Properties of the masking pipeline (SpecMask).                          *)

\* the filters of the dataset pipeline, stated on the digital numbers of the
\* raw image: cloud and cirrus flags clear, the snow band divided by 10000
\* below 0.009, the grayscale of the rescaled reflectances at most 2000,
\* and a valid land pixel of the water mask
PassesFilters(p) ==
    /\ (raw.px[p].v["QA60"] \div 1024) % 2 = 0
    /\ (raw.px[p].v["QA60"] \div 2048) % 2 = 0
    /\ raw.px[p].v["MSK_SNWPRB"] < 90
    /\ 30 * raw.px[p].v["B4"] + 59 * raw.px[p].v["B3"]
          + 11 * raw.px[p].v["B2"] <= 200000
    /\ waterMask.px[p].m
    /\ waterMask.px[p].v["water_mask"] = 0

\* C7: after clp, maskS2clouds, maskS2snow, maskWhite and maskWater in the
\* order of the dataset cell (and still after addNDVI), a pixel is valid
\* exactly if it is valid in the clipped raw image and passes every filter;
\* and no step, in any order, makes valid a pixel that was masked before it.
MaskIsConjunctionOfFilters ==
    /\ pipe \in {5, 6} =>
          \A p \in Pixels :
              raster.px[p].m <=>
                  (raw.px[p].m /\ p \in Geometry(aoi) /\ PassesFilters(p))
    /\ \A p \in Pixels : raster.px[p].m => before.px[p].m

\* a pipeline run in which one pixel survived and a pixel that was valid
\* inside the region was removed by a filter
MaskIsConjunctionOfFiltersWitness ==
    /\ pipe = 5
    /\ \E p \in Pixels : raster.px[p].m
    /\ \E q \in Pixels :
          raw.px[q].m /\ q \in Geometry(aoi) /\ ~raster.px[q].m

TimeStartPreserved ==
    steps # <<>> =>
        /\ HasProp(raster, TIME)
        /\ raster.props[TIME] = raw.props[TIME]

\* the whole pipeline has run; the other properties of the raw image are
\* gone, the capture time is not
TimeStartPreservedWitness ==
    /\ pipe = 6
    /\ "CLOUDY_PIXEL_PERCENTAGE" \notin DOMAIN raster.props
    /\ HasProp(raster, TIME)

\* the grayscale of pixel p as maskWhite computed it on the raster before the
\* last step, rounded down to an integer
GrayscaleBefore(p) == DivPow(grayscale(before, p), before.k)

\* C13: maskWhite removes a pixel exactly if its grayscale
\* 0.3*1e4*B4 + 0.59*1e4*B3 + 0.11*1e4*B2 is greater than or equal to 2000,
\* so a pixel whose grayscale is exactly 2000 is removed.
MaskWhiteRemovesFrom2000 ==
    (steps # <<>> /\ steps[Len(steps)] = "maskWhite") =>
        \A p \in Pixels :
            before.px[p].m =>
                (~raster.px[p].m <=> GrayscaleBefore(p) >= 2000)

\* C14: in the order of the dataset cell (clp, maskS2clouds, maskS2snow),
\* maskS2snow keeps exactly the pixels whose MSK_SNWPRB, a percentage in the
\* raw image, is below 0.9 percent.
MaskS2snowKeepsBelow09Percent ==
    pipe = 3 =>
        \A p \in Pixels :
            before.px[p].m =>
                (raster.px[p].m <=> 10 * raw.px[p].v["MSK_SNWPRB"] < 9)

====
